---------------------------- MODULE Spec2Model ----------------------------
(***************************************************************************)
(* Verification model of the lmc toolkit: the four parity-game solvers of  *)
(* the `parity` crate (fpi, zielonka, spm, tangle) and the Buchi engine of *)
(* the `buchi` crate (tarjans_scc, gnba_to_nba, verify), the formulas of   *)
(* the `ltl` crate and the adapters ltl_to_gnba and petri_to_gnba.         *)
(*                                                                         *)
(* SpecParity: a parity game is drawn from a bounded family, then the four *)
(* solvers run on it one after the other; the loops of fpi and tangle are  *)
(* taken one iteration per step.                                           *)
(* SpecBuchi: an automaton is built through the public operations of       *)
(* Buchi, then verify runs on it; its depth-first searches are taken one   *)
(* popped state per step.                                                  *)
(* SpecLtl: a formula of the `ltl` crate is drawn from a bounded family,   *)
(* then pnf runs on it (one pass of simplify per step), runs again on its  *)
(* own result, and elementary is computed.                                 *)
(* SpecLtlLive: SpecLtl with weak fairness of its steps, for termination.  *)
(* SpecTarjan: tarjans_scc alone, on the graph of the crate's own test and *)
(* on every small automaton.                                               *)
(* SpecVerifyTwice: SpecBuchi with a second call of verify on the same     *)
(* automaton, to compare the two results.                                  *)
(* SpecCycle: verify on automata of four states, whose cycles can differ   *)
(* in length.                                                              *)
(* SpecParse: Formula::parse on a string, Display on the result, parse on  *)
(* the printed string.                                                     *)
(* SpecGnba: pnf and ltl_to_gnba on a small formula.                       *)
(* SpecAttract: Graph::attract alone, on a game, a set and a strategy.     *)
(* SpecPetri: petri_to_gnba on a small net.                                *)
(*                                                                         *)
(* Iteration over a HashSet or HashMap has no defined order in the source; *)
(* wherever the order can change a result the model takes every order.     *)
(***************************************************************************)
EXTENDS Integers, Sequences, FiniteSets, TLC

\* ---------------------------------------------------------------- bounds
MaxVertices == 3
MaxPriority == 2
MaxEdges == 4
MaxStates == 2
MaxTransitions == 4
MaxAcceptingSets == 2
MaxSize == 5
MaxCalls == 2
MaxNodes == 4
MaxTarjanStates == 3
MaxCycleStates == 4
\* petri nets: places, transitions, and the tokens a place starts with
MaxPlaces == 3
MaxNetTransitions == 2
MaxTokens == 2

\* Option::None for a vertex id or a state id
None == -1

VARIABLES
    \* the parity game (Graph.inner): vertex metadata and edges
    owner, priority, edges,
    \* position of the solver run
    pc,
    \* locals of Graph::fpi
    z, frozen, strategy, p,
    \* history of Graph::fpi: the values (z, frozen, p) with which an
    \* iteration of its loop began
    seen,
    \* locals of Graph::tangle
    g, w_even, sigma_even, w_odd, sigma_odd, tangles,
    \* the Solution each solver returned
    sol,
    \* the automaton the public operations of Buchi act on (self)
    buchi,
    \* the automaton gnba_to_nba was called on, if it was: <<>> or <<A>>
    origin,
    \* the public method called last, and the position inside verify
    called, vpc,
    \* locals of Buchi::verify: nba, sccs, accepting, visited, queue, the
    \* initial states the outer loop has not taken yet, and the trace of the
    \* accepting state that was found
    nba, sccs, accepting, visited, queue, inits, trace,
    \* the accepting state and the component handed to
    \* constrained_cycle_searcher, and its locals visited and queue
    cstate, cscc, cvisited, cqueue,
    \* what the call returned: success, a Trace, or no value (panic)
    result,
    \* what tarjans_scc returned, if it was called directly
    found_sccs,
    \* what an earlier run of verify on the same automaton returned, if
    \* there was one: <<>> or <<result>>
    previous,
    \* the Formula (its root_expr) the ltl operations are called on
    formula,
    \* position inside Expr::pnf, its local root_expr, and the values the
    \* calls of pnf made so far returned
    lpc, root_expr, returned,
    \* what Formula::elementary returned, if it was called: <<>> or <<sets>>
    elem,
    \* the strings handed to Formula::parse so far, each as its characters,
    \* and what the calls of Formula::parse made so far returned
    input, parsed,
    \* what ltl_to_gnba returned, if it was called: <<>> or <<automaton>>
    gnba,
    \* the arguments and the result of Graph::attract, if it was called on
    \* its own: <<>> or <<[z, player, strategy, result]>>
    attracted,
    \* the PetriNet: places (the initial marking of each) and transitions
    \* (label, inputs, outputs)
    net,
    \* petri_to_gnba, if it was called: <<>> or <<[gnba, states, visited]>>,
    \* the automaton returned and the locals states and visited at the return
    petri_gnba

gameVars == <<owner, priority, edges>>
fpiVars == <<z, frozen, strategy, p, seen>>
tangleVars == <<g, w_even, sigma_even, w_odd, sigma_odd, tangles>>
parityVars == <<gameVars, pc, fpiVars, tangleVars, sol>>

automatonVars == <<buchi, origin>>
verifyVars == <<nba, sccs, accepting, visited, queue, inits, trace>>
cycleVars == <<cstate, cscc, cvisited, cqueue>>
buchiVars ==
    <<automatonVars, called, vpc, verifyVars, cycleVars, result, found_sccs, previous>>

ltlVars == <<formula, lpc, root_expr, returned, elem>>

frontVars == <<input, parsed, gnba, attracted, net, petri_gnba>>

vars == <<parityVars, buchiVars, ltlVars, frontVars>>

\* ------------------------------------------------------- general helpers
Max(S) == CHOOSE x \in S : \A y \in S : y <= x
Min(S) == CHOOSE x \in S : \A y \in S : x <= y

RECURSIVE Ascending(_)
Ascending(S) == IF S = {} THEN <<>> ELSE <<Min(S)>> \o Ascending(S \ {Min(S)})

RECURSIVE Descending(_)
Descending(S) == IF S = {} THEN <<>> ELSE <<Max(S)>> \o Descending(S \ {Max(S)})

Range(s) == {s[i] : i \in 1..Len(s)}

\* every order in which the elements of a set can be iterated
RECURSIVE Orders(_)
Orders(S) ==
    IF S = {} THEN {<<>>}
    ELSE UNION {{<<x>> \o o : o \in Orders(S \ {x})} : x \in S}

\* a partial map (HashMap) is a function on the set of its keys
EmptyMap == <<>>
Insert(m, k, v) == [x \in DOMAIN m \cup {k} |-> IF x = k THEN v ELSE m[x]]
\* HashMap::extend: entries of n replace entries of m
Extend(m, n) == [x \in DOMAIN m \cup DOMAIN n |-> IF x \in DOMAIN n THEN n[x] ELSE m[x]]
Restrict(m, S) == [x \in DOMAIN m \cap S |-> m[x]]

\* ------------------------------------------------------------ the game
Vertices == DOMAIN owner

\* Owner::from_usize and Owner::neg
from_usize(n) == IF n % 2 = 0 THEN "Even" ELSE "Odd"
neg(o) == IF o = "Even" THEN "Odd" ELSE "Even"

\* A derived graph keeps the node handles of the game: it is the set of
\* vertices that are left.  parse_game adds the edges of vertex 0, 1, ...
\* each in ascending successor order, and petgraph walks the edges of a
\* node from the one added last to the one added first.
neighbors(G, v) ==
    IF v \in G THEN Descending({w \in G : <<v, w>> \in edges}) ELSE <<>>
incoming(G, v) ==
    IF v \in G THEN Descending({u \in G : <<u, v>> \in edges}) ELSE <<>>

highest_priority(G) == Max({priority[v] : v \in G})
player_vertices(G, player) == {v \in G : owner[v] = player}
remove_vertices(G, purge) == G \ purge

Solvers == {"fpi", "zielonka", "spm", "tangle"}

NoSolution ==
    [status |-> "none", even_region |-> {}, odd_region |-> {}, strategy |-> EmptyMap]
Aborted ==
    [status |-> "abort", even_region |-> {}, odd_region |-> {}, strategy |-> EmptyMap]
\* Solution::empty
EmptySolution ==
    [status |-> "ok", even_region |-> {}, odd_region |-> {}, strategy |-> EmptyMap]

\* Graph::construct_solution: the two strategies become the entries of the
\* vertices they name, every other vertex gets an entry without a move
construct_solution(w_0, w_1, s_0, s_1) ==
    LET strat == Extend(s_0, s_1)
    IN [status |-> "ok",
        even_region |-> w_0,
        odd_region |-> w_1,
        strategy |-> [v \in Vertices |->
            [winner |-> IF v \in w_0 THEN "Even" ELSE "Odd",
             next_node_id |-> IF v \in DOMAIN strat THEN strat[v] ELSE None]]]

\* ------------------------------------------------------------------ fpi
winner(v, zz) ==
    IF v \notin zz THEN priority[v] % 2 ELSE 1 - (priority[v] % 2)

\* mutant of find_map: the first successor is taken whoever wins it
find_map_first(ns, want, zz) == IF ns = <<>> THEN None ELSE Head(ns)

RECURSIVE find_map(_, _, _)
find_map(ns, want, zz) ==
    IF ns = <<>> THEN None
    ELSE IF winner(Head(ns), zz) = want THEN Head(ns)
    ELSE find_map(Tail(ns), want, zz)

onestep(v, zz) ==
    LET want == IF owner[v] = "Even" THEN 0 ELSE 1
        n == find_map(neighbors(Vertices, v), want, zz)
    IN IF n # None THEN <<want, n>> ELSE <<1 - want, None>>

\* a scan that reports a distraction and does not put it into Z
RECURSIVE FpiScanForget(_, _, _, _, _)
FpiScanForget(ys, zz, strat, chg, parity) ==
    IF ys = <<>> THEN [z |-> zz, strategy |-> strat, chg |-> chg]
    ELSE LET v == Head(ys)
             r == onestep(v, zz)
         IN FpiScanForget(Tail(ys), zz, Insert(strat, v, r[2]),
                          chg \/ r[1] # parity, parity)

\* the loop `for v in y` of one iteration: z and strategy are updated as
\* the vertices of priority p are visited in ascending order
RECURSIVE FpiScan(_, _, _, _, _)
FpiScan(ys, zz, strat, chg, parity) ==
    IF ys = <<>> THEN [z |-> zz, strategy |-> strat, chg |-> chg]
    ELSE LET v == Head(ys)
             r == onestep(v, zz)
         IN FpiScan(Tail(ys),
                    IF r[1] # parity THEN zz \cup {v} ELSE zz,
                    Insert(strat, v, r[2]),
                    chg \/ r[1] # parity,
                    parity)

FpiStart ==
    /\ pc = "start"
    /\ Vertices # {}
    /\ pc' = "fpi"
    /\ UNCHANGED <<frontVars, ltlVars, buchiVars, gameVars, fpiVars, tangleVars, sol>>

\* highest_priority().expect(..) on a game without vertices
FpiEmpty ==
    /\ pc = "start"
    /\ Vertices = {}
    /\ sol' = [sol EXCEPT !["fpi"] = Aborted]
    /\ pc' = "zielonka"
    /\ UNCHANGED <<frontVars, ltlVars, buchiVars, gameVars, fpiVars, tangleVars>>

\* one iteration of `while p <= max_priority`
FpiLoop ==
    /\ pc = "fpi"
    /\ p <= highest_priority(Vertices)
    /\ LET parity == p % 2
           y == Ascending({v \in Vertices :
                    priority[v] = p /\ v \notin DOMAIN frozen /\ v \notin z})
           s == FpiScan(y, z, strategy, FALSE, parity)
           low == {v \in Vertices : priority[v] < p /\ v \notin DOMAIN frozen}
           freeze == {v \in low : winner(v, s.z) = (p + 1) % 2}
           thaw == {v \in DOMAIN frozen : priority[v] < p /\ frozen[v] = p}
       IN /\ strategy' = s.strategy
          /\ IF s.chg
             THEN /\ frozen' = Extend(frozen, [v \in freeze |-> p])
                  /\ z' = s.z \ (low \ freeze)
                  /\ p' = 0
             ELSE /\ frozen' = Restrict(frozen, DOMAIN frozen \ thaw)
                  /\ z' = s.z
                  /\ p' = p + 1
    /\ seen' = seen \cup {<<z, frozen, p>>}
    /\ UNCHANGED <<frontVars, ltlVars, buchiVars, gameVars, pc, tangleVars, sol>>

\* the Solution built after the loop
FpiSolution(zz, strat) ==
    LET w_0 == {v \in Vertices : winner(v, zz) = 0}
        w_1 == Vertices \ w_0
        s_0 == {v \in w_0 : owner[v] = "Even" /\ v \in DOMAIN strat}
        s_1 == {v \in w_1 : owner[v] = "Odd" /\ v \in DOMAIN strat}
    IN [status |-> "ok",
        even_region |-> w_0,
        odd_region |-> w_1,
        strategy |-> [v \in Vertices |->
            IF v \in s_0 \cup s_1
            THEN [winner |-> owner[v], next_node_id |-> strat[v]]
            ELSE [winner |-> IF v \in w_0 THEN "Even" ELSE "Odd",
                  next_node_id |-> None]]]

FpiReturn ==
    /\ pc = "fpi"
    /\ p > highest_priority(Vertices)
    /\ sol' = [sol EXCEPT !["fpi"] = FpiSolution(z, strategy)]
    /\ pc' = "zielonka"
    /\ UNCHANGED <<frontVars, ltlVars, buchiVars, gameVars, fpiVars, tangleVars>>

\* ------------------------------------------------------------- zielonka
\* a loop that adds the vertices of the player only
RECURSIVE AttractPredsOwned(_, _, _, _, _, _, _)
AttractPredsOwned(G, us, v, zz, q, strat, player) ==
    IF us = <<>> THEN [z |-> zz, q |-> q, strategy |-> strat]
    ELSE LET u == Head(us)
             add == u \notin zz /\ u \in player_vertices(G, player)
             z1 == IF add THEN zz \cup {u} ELSE zz
             q1 == IF add THEN Append(q, u) ELSE q
             s1 == IF u \in z1 \cap player_vertices(G, player) /\ u \notin DOMAIN strat
                   THEN Insert(strat, u, v) ELSE strat
         IN AttractPredsOwned(G, Tail(us), v, z1, q1, s1, player)

\* the loop `for u in neighbors_directed(v, Incoming)` of attract
RECURSIVE AttractPreds(_, _, _, _, _, _, _)
AttractPreds(G, us, v, zz, q, strat, player) ==
    IF us = <<>> THEN [z |-> zz, q |-> q, strategy |-> strat]
    ELSE LET u == Head(us)
             add == /\ u \notin zz
                    /\ \/ u \in player_vertices(G, player)
                       \/ \A w \in Range(neighbors(G, u)) : w \in zz
             z1 == IF add THEN zz \cup {u} ELSE zz
             q1 == IF add THEN Append(q, u) ELSE q
             s1 == IF u \in z1 \cap player_vertices(G, player) /\ u \notin DOMAIN strat
                   THEN Insert(strat, u, v) ELSE strat
         IN AttractPreds(G, Tail(us), v, z1, q1, s1, player)

\* the loop `while let Some(v) = q.pop()` of attract
RECURSIVE AttractRun(_, _, _, _, _)
AttractRun(G, zz, q, strat, player) ==
    IF q = <<>> THEN [z |-> zz, strategy |-> strat]
    ELSE LET v == q[Len(q)]
             r == AttractPreds(G, incoming(G, v), v, zz, SubSeq(q, 1, Len(q) - 1),
                               strat, player)
         IN AttractRun(G, r.z, r.q, r.strategy, player)

\* attract: the queue starts as the HashSet z in the order of its iterator,
\* so there is one result for every order
attract(G, zz, player, strat) ==
    {AttractRun(G, zz, q, strat, player) : q \in Orders(zz)}

\* the strategies attract is called with: none, or one move of a vertex of
\* the player
GivenStrategies(player) ==
    {EmptyMap} \cup {Insert(EmptyMap, e[1], e[2]) : e \in {x \in edges : owner[x[1]] = player}}

\* Graph::attract, called on the whole game
Attract ==
    /\ pc = "start" /\ attracted = <<>>
    /\ \E U \in SUBSET Vertices, player \in {"Even", "Odd"} :
           \E strat \in GivenStrategies(player) :
               \E r \in attract(Vertices, U, player, strat) :
                   attracted' = <<[z |-> U, player |-> player, strategy |-> strat,
                                   result |-> r]>>
    /\ UNCHANGED <<parityVars, buchiVars, ltlVars, input, parsed, gnba, net, petri_gnba>>

Regions(w_0, w_1, s_0, s_1) ==
    [w_even |-> w_0, w_odd |-> w_1, strat_even |-> s_0, strat_odd |-> s_1]

\* mutant of ZielonkaKeep: the vertices of highest priority that attract
\* left without an entry get no successor
ZielonkaKeepNoFill(G, U, player_alpha, a, r) ==
    LET w_alpha == (IF player_alpha = "Even" THEN r.w_even ELSE r.w_odd) \cup a.z
        strat_alpha == Extend(IF player_alpha = "Even" THEN r.strat_even
                              ELSE r.strat_odd, a.strategy)
    IN IF player_alpha = "Even"
       THEN Regions(w_alpha, r.w_odd, strat_alpha, r.strat_odd)
       ELSE Regions(r.w_even, w_alpha, r.strat_even, strat_alpha)

\* the branch `b == *w_beta`: alpha keeps the attractor a, and the vertices
\* of highest priority without an entry get a successor inside w_alpha
ZielonkaKeep(G, U, player_alpha, a, r) ==
    LET w_alpha == (IF player_alpha = "Even" THEN r.w_even ELSE r.w_odd) \cup a.z
        s0 == Extend(IF player_alpha = "Even" THEN r.strat_even ELSE r.strat_odd,
                     a.strategy)
        target(v) == {i \in 1..Len(neighbors(G, v)) : neighbors(G, v)[i] \in w_alpha}
        fill == {v \in U : v \notin DOMAIN s0 /\ target(v) # {}}
        strat_alpha == Extend(s0, [v \in fill |-> neighbors(G, v)[Min(target(v))]])
    IN IF player_alpha = "Even"
       THEN Regions(w_alpha, r.w_odd, strat_alpha, r.strat_odd)
       ELSE Regions(r.w_even, w_alpha, r.strat_even, strat_alpha)

\* the other branch: beta gets b on top of the result for the game without b
ZielonkaGive(player_beta, b, r) ==
    IF player_beta = "Even"
    THEN Regions(r.w_even \cup b.z, r.w_odd, Extend(r.strat_even, b.strategy),
                 r.strat_odd)
    ELSE Regions(r.w_even, r.w_odd \cup b.z, r.strat_even,
                 Extend(r.strat_odd, b.strategy))

RECURSIVE zielonka_r(_)
zielonka_r(G) ==
    IF G = {} THEN {Regions({}, {}, EmptyMap, EmptyMap)}
    ELSE
    LET highest == highest_priority(G)
        player_alpha == from_usize(highest)
        player_beta == neg(player_alpha)
        U == {v \in G : priority[v] = highest}
        as == attract(G, U, player_alpha, EmptyMap)
        After(a, r) ==
            LET w_beta == IF player_alpha = "Even" THEN r.w_odd ELSE r.w_even
                strat_beta == IF player_alpha = "Even" THEN r.strat_odd
                              ELSE r.strat_even
                bs == attract(G, w_beta, player_beta, strat_beta)
            IN UNION {IF b.z = w_beta
                      THEN {ZielonkaKeep(G, U, player_alpha, a, r)}
                      ELSE {ZielonkaGive(player_beta, b, r2) :
                                r2 \in zielonka_r(remove_vertices(G, b.z))}
                      : b \in bs}
    IN UNION {LET rs == zielonka_r(remove_vertices(G, az))
              IN UNION {After(a, r) : a \in {x \in as : x.z = az}, r \in rs}
              : az \in {a.z : a \in as}}

\* Graph::zielonka
Zielonka ==
    /\ pc = "zielonka"
    /\ IF Vertices = {}
       THEN sol' = [sol EXCEPT !["zielonka"] = EmptySolution]
       ELSE \E r \in zielonka_r(Vertices) :
            sol' = [sol EXCEPT !["zielonka"] =
                       construct_solution(r.w_even, r.w_odd, r.strat_even, r.strat_odd)]
    /\ pc' = "spm"
    /\ UNCHANGED <<frontVars, ltlVars, buchiVars, gameVars, fpiVars, tangleVars>>

\* ------------------------------------------------------------------ spm
\* derived Ord of Measure: tuple (None before Some), then is_odd, then is_max
TupleLess(a, b) ==
    \E i \in 1..Len(a) : a[i] < b[i] /\ \A j \in 1..(i - 1) : a[j] = b[j]
MeasureLess(m1, m2) ==
    \/ TupleLess(m1.tuple, m2.tuple)
    \/ /\ m1.tuple = m2.tuple
       /\ \/ ~m1.is_odd /\ m2.is_odd
          \/ m1.is_odd = m2.is_odd /\ ~m1.is_max /\ m2.is_max
MeasureMin(S) == CHOOSE m \in S : \A n \in S : ~MeasureLess(n, m)
MeasureMax(S) == CHOOSE m \in S : \A n \in S : ~MeasureLess(m, n)

\* MeasureFactory::new
MeasureFactory(G, player) ==
    LET max_priority == highest_priority(G)
        tuple_size == IF max_priority % 2 = 0 /\ player = "Even"
                      THEN max_priority \div 2
                      ELSE max_priority \div 2 + 1
        count(pr) == Cardinality({v \in G : priority[v] = pr})
        is_odd == player = "Odd"
    IN [tuple_size |-> tuple_size,
        is_odd |-> is_odd,
        max_measure |->
            [tuple |-> [j \in 1..tuple_size |->
                           count(IF is_odd THEN (tuple_size - j) * 2
                                 ELSE (tuple_size - j) * 2 + 1)],
             is_odd |-> is_odd,
             is_max |-> TRUE]]

zero_measure(factory) ==
    [tuple |-> [j \in 1..factory.tuple_size |-> 0],
     is_odd |-> factory.is_odd,
     is_max |-> FALSE]

\* Measure::priority_to_index, as a position 1..len of the tuple
priority_to_index(m, pr) ==
    (IF Len(m.tuple) > pr \div 2 + 1 THEN Len(m.tuple) - (pr \div 2 + 1) ELSE 0) + 1

\* Measure::prune
prune(m, pr) ==
    LET first == IF m.is_odd THEN 0 ELSE 1
        cut == {priority_to_index(m, r) :
                   r \in {x \in 0..pr : x < pr /\ x >= first /\ (x - first) % 2 = 0}}
    IN [tuple |-> [j \in 1..Len(m.tuple) |-> IF j \in cut THEN None ELSE m.tuple[j]],
        is_odd |-> m.is_odd,
        is_max |-> FALSE]

\* the loop of prog that adds one, from the last element to the first
RECURSIVE Increment(_, _, _)
Increment(t, maxt, i) ==
    IF i = 0 THEN t
    ELSE IF t[i] # None /\ t[i] # maxt[i] THEN [t EXCEPT ![i] = t[i] + 1]
    ELSE Increment([t EXCEPT ![i] = 0], maxt, i - 1)

\* prog after the increment: only the maximal measure is above all zeroes;
\* the last loop turns each remaining None into 0
ProgStrict(m, t, max_measure) ==
    IF \A j \in 1..Len(t) : t[j] = 0 THEN max_measure
    ELSE [m EXCEPT !.tuple = [j \in 1..Len(t) |-> IF t[j] = None THEN 0 ELSE t[j]]]

\* prog on the pruned measure m
ProgPruned(m, pr, player, max_measure) ==
    IF from_usize(pr) # player
    THEN ProgStrict(m, Increment(m.tuple, max_measure.tuple, Len(m.tuple)), max_measure)
    ELSE [m EXCEPT !.tuple = [j \in 1..Len(m.tuple) |->
                                 IF m.tuple[j] = None THEN 0 ELSE m.tuple[j]]]

prog(measure, pr, player, max_measure) ==
    IF measure = max_measure THEN max_measure
    ELSE ProgPruned(prune(measure, pr), pr, player, max_measure)

\* the end of lift: min() or max() over the values ms of the successors
LiftPick(player, vertex, ms, max_measure) ==
    IF ms = {} THEN [ok |-> FALSE, measure |-> max_measure]
    ELSE [ok |-> TRUE,
          measure |-> IF owner[vertex] = player THEN MeasureMin(ms)
                      ELSE MeasureMax(ms)]

\* Graph::lift; min() and max() of no value abort
lift(G, player, measures, vertex, max_measure) ==
    LiftPick(player, vertex,
             {prog(measures[n], priority[vertex], player, max_measure) :
                 n \in Range(neighbors(G, vertex))},
             max_measure)

RECURSIVE PushBack(_, _)
PushBack(q, ns) ==
    IF ns = <<>> THEN q
    ELSE PushBack(IF Head(ns) \in Range(q) THEN q ELSE Append(q, Head(ns)), Tail(ns))

RECURSIVE SpmRun(_, _, _, _, _)

\* one iteration of the loop: l is the lifted measure of the popped vertex
SpmStep(G, player, q, measures, max_measure, l) ==
    IF ~l.ok THEN [ok |-> FALSE, measures |-> measures]
    ELSE IF MeasureLess(measures[Head(q)], l.measure)
    THEN SpmRun(G, player, PushBack(Tail(q), incoming(G, Head(q))),
                [measures EXCEPT ![Head(q)] = l.measure], max_measure)
    ELSE SpmRun(G, player, Tail(q), measures, max_measure)

\* the loop `while let Some(v) = q.pop_front()` of progress_measure
SpmRun(G, player, q, measures, max_measure) ==
    IF q = <<>> THEN [ok |-> TRUE, measures |-> measures]
    ELSE SpmStep(G, player, q, measures, max_measure,
                 lift(G, player, measures, Head(q), max_measure))

\* the positions in neighbors(G, v) of the successors whose prog is the
\* measure of v
SpmTargets(G, player, measures, max_measure, v) ==
    {i \in 1..Len(neighbors(G, v)) :
        measures[v] = prog(measures[neighbors(G, v)[i]], priority[v], player, max_measure)}

\* the strategy of the player on the vertices of w_alpha it owns
SpmStrategy(G, player, measures, max_measure, moving) ==
    [v \in moving |->
        neighbors(G, v)[Min(SpmTargets(G, player, measures, max_measure, v))]]

\* the end of progress_measure: the partition by is_max and the strategy
ProgressResult(G, player, max_measure, ok, measures, w_alpha) ==
    [ok |-> ok,
     w_alpha |-> w_alpha,
     w_beta |-> G \ w_alpha,
     sigma_alpha |->
        SpmStrategy(G, player, measures, max_measure,
                    {v \in w_alpha :
                        /\ owner[v] = player
                        /\ SpmTargets(G, player, measures, max_measure, v) # {}})]

ProgressPartition(G, player, max_measure, run) ==
    ProgressResult(G, player, max_measure, run.ok, run.measures,
                   {v \in G : ~run.measures[v].is_max})

ProgressLoop(G, player, factory) ==
    ProgressPartition(G, player, factory.max_measure,
                      SpmRun(G, player,
                             Ascending({v \in G : from_usize(priority[v]) # player}),
                             [v \in G |-> zero_measure(factory)],
                             factory.max_measure))

progress_measure(G, player) == ProgressLoop(G, player, MeasureFactory(G, player))

\* the end of spm: the run for Odd is needed only where Even loses a vertex
SpmSolution(even, odd) ==
    IF ~even.ok THEN Aborted
    ELSE IF even.w_beta = {}
    THEN construct_solution(even.w_alpha, even.w_beta, even.sigma_alpha, EmptyMap)
    ELSE IF ~odd.ok THEN Aborted
    ELSE construct_solution(even.w_alpha, even.w_beta, even.sigma_alpha,
                            odd.sigma_alpha)

\* Graph::spm
spm(G) ==
    IF G = {} THEN EmptySolution
    ELSE SpmSolution(progress_measure(G, "Even"), progress_measure(G, "Odd"))

Spm ==
    /\ pc = "spm"
    /\ sol' = [sol EXCEPT !["spm"] = spm(Vertices)]
    /\ pc' = "tangle"
    /\ UNCHANGED <<frontVars, ltlVars, buchiVars, gameVars, fpiVars, tangleVars>>

\* --------------------------------------------------------------- tangle
\* a Tangle is [winner, vertices, strategy]
\* Tangle::escapes
escapes(t, G) ==
    UNION {{n \in Range(neighbors(G, v)) : n \notin t.vertices} :
              v \in {x \in t.vertices : owner[x] # t.winner}}

\* Tangle::neighbors
tangle_neighbors(t, G) == UNION {Range(neighbors(G, v)) : v \in t.vertices}

\* Tangle::is_closed
is_closed(t, G) ==
    LET z_alpha == {v \in t.vertices : owner[v] = t.winner}
        z_beta == t.vertices \ z_alpha
    IN \/ /\ Cardinality(z_alpha) = 1
          /\ DOMAIN t.strategy = {}
          /\ \A v \in z_alpha : neighbors(G, v) = <<>>
       \/ /\ \A v \in z_alpha :
                 \/ neighbors(G, v) = <<>>
                 \/ \E n \in Range(neighbors(G, v)) : n \in t.vertices
          /\ \A v \in z_beta :
                 ~\E n \in Range(neighbors(G, v)) : n \notin t.vertices

\* mutant of TanglePreds: a predecessor is attracted whoever owns it and
\* wherever else it can move
RECURSIVE TanglePredsGreedy(_, _, _, _, _, _, _)
TanglePredsGreedy(G, us, v, zz, q, strat, player) ==
    IF us = <<>> THEN [z |-> zz, q |-> q, strategy |-> strat]
    ELSE LET u == Head(us)
             add == u \in G /\ u \notin zz
             z1 == IF add THEN zz \cup {u} ELSE zz
             q1 == IF add /\ u \notin Range(q) THEN Append(q, u) ELSE q
             s1 == IF u \in z1 \cap player_vertices(G, player) /\ u \notin DOMAIN strat
                   THEN Insert(strat, u, v) ELSE strat
         IN TanglePredsGreedy(G, Tail(us), v, z1, q1, s1, player)

\* the loop `for u in neighbors_directed(v, Incoming)` of tangle_attract
RECURSIVE TanglePreds(_, _, _, _, _, _, _)
TanglePreds(G, us, v, zz, q, strat, player) ==
    IF us = <<>> THEN [z |-> zz, q |-> q, strategy |-> strat]
    ELSE LET u == Head(us)
             add == /\ u \in G
                    /\ u \notin zz
                    /\ \/ u \in player_vertices(G, player)
                       \/ \A w \in Range(neighbors(G, u)) : w \in zz
             z1 == IF add THEN zz \cup {u} ELSE zz
             q1 == IF add /\ u \notin Range(q) THEN Append(q, u) ELSE q
             s1 == IF u \in z1 \cap player_vertices(G, player) /\ u \notin DOMAIN strat
                   THEN Insert(strat, u, v) ELSE strat
         IN TanglePreds(G, Tail(us), v, z1, q1, s1, player)

\* an attractor that leaves the tangles alone
TangleAbsorbNone(G, ts, zz, q, strat) == [z |-> zz, q |-> q, strategy |-> strat]

\* the loop over the adjacent tangles of the player, in the order ts
RECURSIVE TangleAbsorb(_, _, _, _, _)
TangleAbsorb(G, ts, zz, q, strat) ==
    IF ts = <<>> THEN [z |-> zz, q |-> q, strategy |-> strat]
    ELSE LET t == Head(ts)
         IN IF t.vertices \subseteq zz
            THEN TangleAbsorb(G, Tail(ts), zz, q, strat)
            ELSE IF /\ \A v \in t.vertices : v \in G \/ v \in zz
                    /\ escapes(t, G) \subseteq zz
            THEN LET u_prime == t.vertices \ zz
                 IN TangleAbsorb(G, Tail(ts), zz \cup t.vertices,
                                 PushBack(q, Ascending(t.vertices)),
                                 Extend(strat, Restrict(t.strategy, u_prime)))
            ELSE TangleAbsorb(G, Tail(ts), zz, q, strat)

\* the loop `while let Some(v) = q.pop()` of tangle_attract; the HashSet of
\* tangles is walked in any order
RECURSIVE TangleRun(_, _, _, _, _, _)
TangleRun(G, T, zz, q, strat, player) ==
    IF q = <<>> THEN {[winner |-> player, vertices |-> zz, strategy |-> strat]}
    ELSE LET v == q[Len(q)]
             r == TanglePreds(G, incoming(G, v), v, zz, SubSeq(q, 1, Len(q) - 1),
                              strat, player)
             adjacent == {t \in T : t.winner = player /\ v \in tangle_neighbors(t, G)}
         IN UNION {LET a == TangleAbsorb(G, ts, r.z, r.q, r.strategy)
                   IN TangleRun(G, T, a.z, a.q, a.strategy, player)
                   : ts \in Orders(adjacent)}

tangle_attract(G, T, attractor, player, strat) ==
    TangleRun(G, T, attractor, Ascending(attractor), strat, player)

\* Graph::search: the sets of tangles it can return
RECURSIVE search(_, _)
search(G, T) ==
    IF G = {} THEN {{}}
    ELSE LET pr == highest_priority(G)
             player_alpha == from_usize(pr)
             highest_priority_vertices == {v \in G : priority[v] = pr}
         IN UNION {LET rest == search(remove_vertices(G, t.vertices), T)
                   IN IF is_closed(t, G) THEN {r \cup {t} : r \in rest} ELSE rest
                   : t \in tangle_attract(G, T, highest_priority_vertices,
                                          player_alpha, EmptyMap)}

\* the strategies of the dominions of one player, collected into one map
DominionStrategy(d) ==
    [k \in UNION {DOMAIN t.strategy : t \in d} |->
        (CHOOSE t \in d : k \in DOMAIN t.strategy).strategy[k]]

TangleStart ==
    /\ pc = "tangle"
    /\ g' = Vertices
    /\ w_even' = {} /\ sigma_even' = EmptyMap
    /\ w_odd' = {} /\ sigma_odd' = EmptyMap
    /\ tangles' = {}
    /\ pc' = "tangle_loop"
    /\ UNCHANGED <<frontVars, ltlVars, buchiVars, gameVars, fpiVars, sol>>

\* one iteration of `while g.inner.node_count() != 0`
TangleLoop ==
    /\ pc = "tangle_loop"
    /\ g # {}
    /\ \E y \in search(g, tangles) :
        LET learned == tangles \cup {t \in y : escapes(t, g) # {}}
            d == {t \in y : escapes(t, g) = {}}
            d_even == {t \in d : t.winner = "Even"}
            d_odd == {t \in d : t.winner = "Odd"}
        IN IF d = {}
           THEN /\ tangles' = learned
                /\ UNCHANGED <<g, w_even, sigma_even, w_odd, sigma_odd>>
           ELSE \E d_plus_even \in tangle_attract(g, learned,
                        UNION {t.vertices : t \in d_even}, "Even",
                        DominionStrategy(d_even)),
                   d_plus_odd \in tangle_attract(g, learned,
                        UNION {t.vertices : t \in d_odd}, "Odd",
                        DominionStrategy(d_odd)) :
                /\ g' = remove_vertices(remove_vertices(g, d_plus_even.vertices),
                                        d_plus_odd.vertices)
                /\ w_even' = w_even \cup d_plus_even.vertices
                /\ sigma_even' = Extend(sigma_even, d_plus_even.strategy)
                /\ w_odd' = w_odd \cup d_plus_odd.vertices
                /\ sigma_odd' = Extend(sigma_odd, d_plus_odd.strategy)
                /\ tangles' = {t \in learned : t.vertices \subseteq g'}
    /\ UNCHANGED <<frontVars, ltlVars, buchiVars, gameVars, pc, fpiVars, sol>>

TangleReturn ==
    /\ pc = "tangle_loop"
    /\ g = {}
    /\ sol' = [sol EXCEPT !["tangle"] =
                  construct_solution(w_even, w_odd, sigma_even, sigma_odd)]
    /\ pc' = "done"
    /\ UNCHANGED <<frontVars, ltlVars, buchiVars, gameVars, fpiVars, tangleVars>>

\* ---------------------------------------------------------------- Buchi
\* the words and labels the operations are called with
Words == {"a", "b"}
Labels == {"p"}

\* Buchi::new
new ==
    [states |-> EmptyMap, labels |-> EmptyMap, accepting_sets |-> {},
     initial_states |-> {}, size |-> 0]

\* Buchi::states: the keys of the transition table
states(b) == DOMAIN b.states

new_state(b) ==
    [b EXCEPT !.states = Insert(b.states, b.size, EmptyMap), !.size = b.size + 1]

new_labeled_state(b, label) ==
    [b EXCEPT !.states = Insert(b.states, b.size, EmptyMap),
              !.labels = Insert(b.labels, b.size, label),
              !.size = b.size + 1]

set_initial_state(b, state) ==
    [b EXCEPT !.initial_states = b.initial_states \cup {state}]

add_accepting_set(b, set) ==
    [b EXCEPT !.accepting_sets = b.accepting_sets \cup {set}]

\* self.states.get(state): the transitions of a state, none for an unknown state
transitions(b, state) ==
    IF state \in DOMAIN b.states THEN b.states[state] ELSE EmptyMap

\* entry(word).or_insert(HashSet::new()).insert(target)
AddTarget(tr, target, word) ==
    Insert(tr, word, (IF word \in DOMAIN tr THEN tr[word] ELSE {}) \cup {target})

add_transition(b, source, target, word) ==
    [b EXCEPT !.states = Insert(b.states, source,
                                AddTarget(transitions(b, source), target, word))]

\* the transitions of the automaton as (source, word, target)
Transitions(b) ==
    {x \in states(b) \X Words \X states(b) :
        x[2] \in DOMAIN b.states[x[1]] /\ x[3] \in b.states[x[1]][x[2]]}

get_successors(b, state) ==
    UNION {transitions(b, state)[w] : w \in DOMAIN transitions(b, state)}

\* ---- tarjans_scc
\* the state of the search: index, stack, colors (state -> (index, lowlink))
\* and the components found so far, in the order they were found
TarjanStart == [index |-> 0, stack |-> <<>>, colors |-> EmptyMap, components |-> <<>>]

\* a search that never lowers the lowlink of a state
LowLinkKeep(st, state, low) == st

\* colors.insert(state, (state_cols.0, min(state_cols.1, low)))
LowLink(st, state, low) ==
    [st EXCEPT !.colors = Insert(st.colors, state,
        <<st.colors[state][1], Min({st.colors[state][2], low})>>)]

\* the end of tarjans_strongconnect: a root pops its component off the stack
PopComponent(st, state, i) ==
    [st EXCEPT !.stack = SubSeq(st.stack, 1, i - 1),
               !.components = Append(st.components,
                                     {st.stack[j] : j \in i..Len(st.stack)})]

StrongconnectEnd(st, state) ==
    IF st.colors[state][1] = st.colors[state][2]
    THEN PopComponent(st, state, CHOOSE i \in 1..Len(st.stack) : st.stack[i] = state)
    ELSE st

RECURSIVE tarjans_strongconnect(_, _, _)
RECURSIVE StrongconnectLoop(_, _, _, _)

\* the body of `for successor in successors`
StrongconnectVisit(b, state, successor, st) ==
    IF successor \notin DOMAIN st.colors
    THEN {LowLink(y, state, y.colors[successor][2]) :
             y \in tarjans_strongconnect(b, successor, st)}
    ELSE IF successor \in Range(st.stack)
    THEN {LowLink(st, state, st.colors[successor][1])}
    ELSE {st}

\* `for successor in successors`, a HashSet: in every order
StrongconnectLoop(b, state, todo, st) ==
    IF todo = {} THEN {st}
    ELSE UNION {UNION {StrongconnectLoop(b, state, todo \ {w}, y) :
                          y \in StrongconnectVisit(b, state, w, st)} : w \in todo}

\* every state the search can be in when tarjans_strongconnect returns
tarjans_strongconnect(b, state, st) ==
    {StrongconnectEnd(y, state) :
        y \in StrongconnectLoop(b, state, get_successors(b, state),
                 [st EXCEPT !.colors = Insert(st.colors, state, <<st.index, st.index>>),
                            !.index = st.index + 1,
                            !.stack = Append(st.stack, state)])}

\* `for state in &self.states()`, a HashSet: in every order; a state that
\* has a color is skipped
RECURSIVE TarjanRoots(_, _, _)
TarjanRoots(b, todo, st) ==
    IF todo \subseteq DOMAIN st.colors THEN {st.components}
    ELSE UNION {UNION {TarjanRoots(b, todo \ {s}, y) :
                          y \in tarjans_strongconnect(b, s, st)} :
                   s \in todo \ DOMAIN st.colors}

\* every Vec of components tarjans_scc can return
tarjans_scc(b) == TarjanRoots(b, states(b), TarjanStart)

\* !transitions.values().contains(scc): no word leads to exactly the
\* states of the component
scc_is_trivial(b, scc) ==
    /\ Cardinality(scc) = 1
    /\ \A w \in DOMAIN b.states[CHOOSE s \in scc : TRUE] :
           b.states[CHOOSE s \in scc : TRUE][w] # scc

\* ---- gnba_to_nba
\* the renaming left out: every copy keeps the ids of the original
RenameInPlace(b, id, i) == id

\* k.id += self.size * i
Rename(b, id, i) == id + b.size * i

\* the state of self that became state k of copy i
Renamed(b, k, i) == CHOOSE s \in states(b) : Rename(b, s, i) = k

\* the target moved into the next copy, the first one after the last
NextCopy(b, id) == (id + b.size) % (b.size * Cardinality(b.accepting_sets))

\* new_states of iteration i: the copy of the state space, in which the
\* transitions of the states of accepting_set lead into the next copy
CopyStates(b, i, accepting_set) ==
    [k \in {Rename(b, s, i) : s \in states(b)} |->
        [w \in DOMAIN b.states[Renamed(b, k, i)] |->
            IF Renamed(b, k, i) \in accepting_set
            THEN {NextCopy(b, Rename(b, t, i)) : t \in b.states[Renamed(b, k, i)][w]}
            ELSE {Rename(b, t, i) : t \in b.states[Renamed(b, k, i)][w]}]]

\* labels.get(State { id: new.id % self.size }).unwrap().clone()
CopyLabels(b, i) ==
    [k \in {Rename(b, s, i) : s \in states(b)} |-> b.labels[k % b.size]]

\* `for (i, accepting_set) in self.accepting_sets.iter().enumerate()`
RECURSIVE GnbaLoop(_, _, _, _)
GnbaLoop(b, order, i, n) ==
    IF i = Len(order) THEN n
    ELSE GnbaLoop(b, order, i + 1,
            [n EXCEPT !.states = Extend(n.states, CopyStates(b, i, order[i + 1])),
                      !.labels = Extend(n.labels, CopyLabels(b, i)),
                      !.accepting_sets =
                          IF i = Len(order) - 1
                          THEN n.accepting_sets \cup
                                   {{Rename(b, s, i) : s \in order[i + 1]}}
                          ELSE n.accepting_sets])

\* the end of gnba_to_nba: the initial states and the size
GnbaEnd(b, n) ==
    [n EXCEPT !.initial_states = n.initial_states \cup b.initial_states,
              !.size = n.size + b.size * Cardinality(b.accepting_sets)]

\* every outcome of gnba_to_nba: the accepting sets, a HashSet, are taken in
\* every order; the unwrap of a missing label panics
gnba_to_nba(b) ==
    IF Cardinality(b.accepting_sets) <= 1 THEN {[ok |-> TRUE, nba |-> b]}
    ELSE IF \E s \in states(b) : s \notin DOMAIN b.labels
    THEN {[ok |-> FALSE, nba |-> new]}
    ELSE {[ok |-> TRUE, nba |-> GnbaEnd(b, GnbaLoop(b, order, 0, new))] :
             order \in Orders(b.accepting_sets)}

\* ---- what a call returns
NoResult == [kind |-> "none", words |-> <<>>, omega_words |-> <<>>]
\* Ok(())
Ok == [kind |-> "ok", words |-> <<>>, omega_words |-> <<>>]
\* Err(Trace::new(trace, omega_trace))
Err(words, omega_words) == [kind |-> "err", words |-> words, omega_words |-> omega_words]
\* a panic: the call returns nothing
Panicked == [kind |-> "abort", words |-> <<>>, omega_words |-> <<>>]

\* ---- Display for Trace
\* iter().map(|w| w.id.as_str()).collect::<Vec<&str>>().join(sep)
RECURSIVE join(_, _)
join(words, sep) ==
    IF words = <<>> THEN ""
    ELSE IF Len(words) = 1 THEN words[1]
    ELSE words[1] \o sep \o join(Tail(words), sep)

\* the two bytes the format string of the cycle has after the closing
\* parenthesis, in the place of the omega
OmegaMark == "??"

\* format!("{}", trace): the words of the prefix with ", " between and
\* after them, when there are any, then the words of the cycle in parentheses
fmt(t) ==
    (IF t.words # <<>> THEN join(t.words, ", ") \o ", " ELSE "")
        \o "(" \o join(t.omega_words, ", ") \o ")" \o OmegaMark

\* ---- verify
\* the components that are not trivial
NonTrivial(b, components) == {c \in Range(components) : ~scc_is_trivial(b, c)}

\* every value of `sccs`; a state is popped off the stack of the search
\* once, so it is in one component and the order of the Vec decides nothing
NonTrivialSccs(b) == {NonTrivial(b, components) : components \in tarjans_scc(b)}

\* the two early returns of verify
EarlyReturn(b, s) ==
    \/ \E set \in b.accepting_sets : \E f \in set : \A component \in s : f \notin component
    \/ \A c \in s : scc_is_trivial(b, c)

\* no representative: nothing is accepting when there is no accepting set
RepresentativesNone(s) == {{}}

\* scc.iter().next() for every component: any one state of each
Representatives(s) ==
    {{f[c] : c \in s} : f \in {h \in [s -> UNION s] : \A c \in s : h[c] \in c}}

\* the accepting states the search looks for
AcceptingStates(n, s) ==
    IF UNION n.accepting_sets = {} THEN Representatives(s)
    ELSE {UNION n.accepting_sets}

\* the inner loops of the search of verify over the successors of one word
RECURSIVE VerifySuccessors(_, _, _, _)
VerifySuccessors(state, word, todo, y) ==
    IF todo = {} THEN {y}
    ELSE UNION {VerifySuccessors(state, word, todo \ {successor},
                    IF successor \in DOMAIN y.visited THEN y
                    ELSE [visited |-> Insert(y.visited, successor,
                                             Append(y.visited[state], word)),
                          queue |-> Append(y.queue, successor)]) :
                   successor \in todo}

\* `for (word, successors) in transition`, a HashMap: in every order
RECURSIVE VerifyWords(_, _, _, _)
VerifyWords(n, state, todo, y) ==
    IF todo = {} THEN {y}
    ELSE UNION {UNION {VerifyWords(n, state, todo \ {word}, x) :
                          x \in VerifySuccessors(state, word, n.states[state][word], y)} :
                   word \in todo}

\* ---- constrained_cycle_searcher
CycleVisit(initial_state, state, word, successor, y) ==
    IF successor = initial_state
    THEN [y EXCEPT !.found = TRUE,
                   !.trace = Append(y.visited[state], word),
                   !.visited = Restrict(y.visited, DOMAIN y.visited \ {state})]
    ELSE IF successor \in DOMAIN y.visited THEN y
    ELSE [y EXCEPT !.visited = Insert(y.visited, successor,
                                      Append(y.visited[state], word)),
                   !.queue = Append(y.queue, successor)]

RECURSIVE CycleSuccessors(_, _, _, _, _)
CycleSuccessors(initial_state, state, word, todo, y) ==
    IF y.found \/ todo = {} THEN {y}
    ELSE UNION {CycleSuccessors(initial_state, state, word, todo \ {successor},
                    CycleVisit(initial_state, state, word, successor, y)) :
                   successor \in todo}

RECURSIVE CycleWords(_, _, _, _, _, _)
CycleWords(n, initial_state, scc, state, todo, y) ==
    IF y.found \/ todo = {} THEN {y}
    ELSE UNION {UNION {CycleWords(n, initial_state, scc, state, todo \ {word}, x) :
                          x \in CycleSuccessors(initial_state, state, word,
                                   n.states[state][word] \cap scc, y)} :
                   word \in todo}

\* ---- the operations as steps
NewState ==
    /\ vpc = "build" /\ buchi.size < MaxStates
    /\ buchi' = new_state(buchi)
    /\ UNCHANGED <<frontVars, ltlVars, parityVars, found_sccs, previous, origin, called, vpc, verifyVars, cycleVars, result>>

NewLabeledState ==
    /\ vpc = "build" /\ buchi.size < MaxStates
    /\ \E label \in Labels : buchi' = new_labeled_state(buchi, label)
    /\ UNCHANGED <<frontVars, ltlVars, parityVars, found_sccs, previous, origin, called, vpc, verifyVars, cycleVars, result>>

SetInitialState ==
    /\ vpc = "build"
    /\ \E state \in states(buchi) \ buchi.initial_states :
           buchi' = set_initial_state(buchi, state)
    /\ UNCHANGED <<frontVars, ltlVars, parityVars, found_sccs, previous, origin, called, vpc, verifyVars, cycleVars, result>>

AddTransition ==
    /\ vpc = "build" /\ Cardinality(Transitions(buchi)) < MaxTransitions
    /\ \E source \in states(buchi), target \in states(buchi), word \in Words :
           /\ <<source, word, target>> \notin Transitions(buchi)
           /\ buchi' = add_transition(buchi, source, target, word)
    /\ UNCHANGED <<frontVars, ltlVars, parityVars, found_sccs, previous, origin, called, vpc, verifyVars, cycleVars, result>>

AddAcceptingSet ==
    /\ vpc = "build" /\ Cardinality(buchi.accepting_sets) < MaxAcceptingSets
    /\ \E set \in (SUBSET states(buchi)) \ buchi.accepting_sets :
           buchi' = add_accepting_set(buchi, set)
    /\ UNCHANGED <<frontVars, ltlVars, parityVars, found_sccs, previous, origin, called, vpc, verifyVars, cycleVars, result>>

\* a call of gnba_to_nba on the automaton; the operations continue on the
\* automaton it returns
GnbaToNba ==
    /\ vpc = "build"
    /\ called' = "gnba_to_nba"
    /\ origin' = <<buchi>>
    /\ \E r \in gnba_to_nba(buchi) :
           IF r.ok
           THEN buchi' = r.nba /\ vpc' = "degeneralized" /\ UNCHANGED result
           ELSE result' = Panicked /\ vpc' = "returned" /\ UNCHANGED buchi
    /\ UNCHANGED <<frontVars, ltlVars, parityVars, found_sccs, previous, verifyVars, cycleVars>>

\* verify up to the search: the components, the early returns, the
\* degeneralized automaton, its components and the accepting states
VerifyBegin ==
    /\ vpc \in {"build", "degeneralized", "again"}
    /\ called' = "verify"
    /\ \E components \in NonTrivialSccs(buchi) :
           IF EarlyReturn(buchi, components)
           THEN result' = Ok /\ vpc' = "returned" /\ UNCHANGED verifyVars
           ELSE \E r \in gnba_to_nba(buchi) :
                    IF ~r.ok
                    THEN result' = Panicked /\ vpc' = "returned" /\ UNCHANGED verifyVars
                    ELSE \E found \in NonTrivialSccs(r.nba) :
                             /\ nba' = r.nba
                             /\ sccs' = found
                             /\ accepting' \in AcceptingStates(r.nba, found)
                             /\ visited' = EmptyMap
                             /\ queue' = <<>>
                             /\ inits' = r.nba.initial_states
                             /\ vpc' = "dfs"
                             /\ UNCHANGED <<result, trace>>
    /\ UNCHANGED <<frontVars, ltlVars, parityVars, found_sccs, previous, automatonVars, cycleVars>>

\* `for initial_state in &nba.initial_states`: the next initial state
VerifyInitial ==
    /\ vpc = "dfs" /\ queue = <<>> /\ inits # {}
    /\ \E initial_state \in inits :
           /\ inits' = inits \ {initial_state}
           /\ IF initial_state \in DOMAIN visited
              THEN UNCHANGED <<visited, queue>>
              ELSE /\ visited' = Insert(visited, initial_state, <<>>)
                   /\ queue' = <<initial_state>>
    /\ UNCHANGED <<frontVars, ltlVars, parityVars, found_sccs, previous, automatonVars, called, vpc, nba, sccs, accepting, trace,
                   cycleVars, result>>

\* `while let Some(state) = queue.pop()`: one popped state
VerifyPop ==
    /\ vpc = "dfs" /\ queue # <<>>
    /\ IF queue[Len(queue)] \in accepting
       THEN IF \A c \in sccs : queue[Len(queue)] \notin c
            THEN \* index 0 of an empty Vec
                 /\ result' = Panicked /\ vpc' = "returned"
                 /\ UNCHANGED <<visited, queue, trace, cycleVars>>
            ELSE /\ cstate' = queue[Len(queue)]
                 /\ cscc' \in {c \in sccs : queue[Len(queue)] \in c}
                 /\ trace' = visited[queue[Len(queue)]]
                 /\ visited' = Restrict(visited, DOMAIN visited \ {queue[Len(queue)]})
                 /\ queue' = SubSeq(queue, 1, Len(queue) - 1)
                 /\ cvisited' = Insert(EmptyMap, queue[Len(queue)], <<>>)
                 /\ cqueue' = <<queue[Len(queue)]>>
                 /\ vpc' = "cycle"
                 /\ UNCHANGED result
       ELSE /\ \E y \in VerifyWords(nba, queue[Len(queue)],
                            DOMAIN transitions(nba, queue[Len(queue)]),
                            [visited |-> visited,
                             queue |-> SubSeq(queue, 1, Len(queue) - 1)]) :
                   visited' = y.visited /\ queue' = y.queue
            /\ UNCHANGED <<vpc, trace, cycleVars, result>>
    /\ UNCHANGED <<frontVars, ltlVars, parityVars, found_sccs, previous, automatonVars, called, nba, sccs, accepting, inits>>

\* the end of verify: every initial state was searched and no accepting
\* state was found, Ok(())
VerifyReturn ==
    /\ vpc = "dfs" /\ queue = <<>> /\ inits = {}
    /\ result' = Ok /\ vpc' = "returned"
    /\ UNCHANGED <<frontVars, ltlVars, parityVars, found_sccs, previous, automatonVars, called, verifyVars, cycleVars>>

\* a second run of the program on the same automaton: verify is called
\* again, with collections whose order of iteration is chosen anew
VerifyAgain ==
    /\ called = "verify" /\ vpc = "returned" /\ previous = <<>>
    /\ previous' = <<result>>
    /\ result' = NoResult
    /\ vpc' = "again"
    /\ nba' = new /\ sccs' = {} /\ accepting' = {} /\ visited' = EmptyMap
    /\ queue' = <<>> /\ inits' = {} /\ trace' = <<>>
    /\ cstate' = None /\ cscc' = {} /\ cvisited' = EmptyMap /\ cqueue' = <<>>
    /\ UNCHANGED <<frontVars, ltlVars, parityVars, found_sccs, automatonVars, called>>

\* constrained_cycle_searcher, one popped state per step, and the return of
\* verify with the trace; no cycle is None, which verify unwraps
CyclePop ==
    /\ vpc = "cycle"
    /\ IF cqueue = <<>>
       THEN result' = Panicked /\ vpc' = "returned" /\ UNCHANGED <<cvisited, cqueue>>
       ELSE \E y \in CycleWords(nba, cstate, cscc, cqueue[Len(cqueue)],
                        DOMAIN transitions(nba, cqueue[Len(cqueue)]),
                        [found |-> FALSE, trace |-> <<>>, visited |-> cvisited,
                         queue |-> SubSeq(cqueue, 1, Len(cqueue) - 1)]) :
                /\ cvisited' = y.visited
                /\ cqueue' = y.queue
                /\ IF y.found
                   THEN result' = Err(trace, y.trace) /\ vpc' = "returned"
                   ELSE UNCHANGED <<result, vpc>>
    /\ UNCHANGED <<frontVars, ltlVars, parityVars, found_sccs, previous, automatonVars, called, verifyVars, cstate, cscc>>

\* ---- tarjans_scc called on its own
\* the automaton with states 0..n-1 and the transitions T, as new_state and
\* add_transition build it
FromTransitions(n, T) ==
    [new EXCEPT
        !.states = [s \in 0..(n - 1) |->
                       [w \in {x[2] : x \in {y \in T : y[1] = s}} |->
                           {x[3] : x \in {y \in T : y[1] = s /\ y[2] = w}}]],
        !.size = n]

\* the graph of the test `tarjan`; its states a, b, e, c, d, f, g, h are
\* numbered 0..7 in the order of their creation
TarjanTest ==
    FromTransitions(8,
        {<<0, "x", 1>>, <<1, "x", 2>>, <<2, "x", 0>>, <<1, "x", 5>>,
         <<1, "x", 3>>, <<2, "x", 5>>, <<3, "x", 4>>, <<4, "x", 3>>,
         <<4, "x", 7>>, <<7, "x", 4>>, <<3, "y", 6>>, <<7, "z", 6>>,
         <<6, "x", 5>>, <<5, "x", 6>>})

\* the automaton of the test `verify_empty`: s1 -a-> s2, s2 -b-> s1, initial
\* state s1, no accepting set; s1 and s2 are the states 0 and 1
VerifyEmptyTest ==
    set_initial_state(FromTransitions(2, {<<0, "a", 1>>, <<1, "b", 0>>}), 0)

\* the automaton of the test `verify_simple_counter`: s1 -a-> s2, s2 -b-> s1,
\* initial state s1, accepting state s2; s1 and s2 are the states 0 and 1
VerifySimpleCounterTest == add_accepting_set(VerifyEmptyTest, {1})

\* Buchi::tarjans_scc
TarjansScc ==
    /\ called = "none"
    /\ called' = "tarjans_scc"
    /\ found_sccs' \in tarjans_scc(buchi)
    /\ UNCHANGED <<frontVars, ltlVars, parityVars, previous, automatonVars, vpc, verifyVars,
                   cycleVars, result>>

\* ------------------------------------------------------------------ ltl
\* An Expr is a tuple whose first element names the case of the enum and
\* whose other elements are its fields: <<"True">>, <<"Atomic", "a">>,
\* <<"Not", e>>, <<"Until", lhs, rhs>>.
Atoms == {"a", "b"}
UnaryCases == {"Not", "Next", "Globally", "Finally"}
BinaryCases == {"Or", "And", "Until", "WeakUntil", "Release", "StrongRelease"}

\* the expressions with exactly n nodes
RECURSIVE ExprsOfSize(_)
ExprsOfSize(n) ==
    IF n = 1
    THEN {<<"True">>, <<"False">>} \cup {<<"Atomic", s>> : s \in Atoms}
    ELSE {<<c, e>> : c \in UnaryCases, e \in ExprsOfSize(n - 1)}
         \cup UNION {{<<c, lhs, rhs>> : c \in BinaryCases,
                                        lhs \in ExprsOfSize(i),
                                        rhs \in ExprsOfSize(n - 1 - i)}
                     : i \in 1..(n - 2)}

\* Expr::negated
negated(e) ==
    CASE e[1] = "True" -> <<"False">>
      [] e[1] = "False" -> <<"True">>
      [] e[1] = "Not" -> e[2]
      [] OTHER -> <<"Not", e>>

RECURSIVE simplify(_)

\* Expr::simplify, the duality laws: the expression is Not(ex)
simplify_not(ex) ==
    CASE ex[1] = "True" -> <<"False">>
      [] ex[1] = "False" -> <<"True">>
      [] ex[1] = "Atomic" -> <<"Not", ex>>
      [] ex[1] = "And" ->
            <<"Or", <<"Not", simplify(ex[2])>>, <<"Not", simplify(ex[3])>>>>
      [] ex[1] = "Or" ->
            <<"And", <<"Not", simplify(ex[2])>>, <<"Not", simplify(ex[3])>>>>
      [] ex[1] = "Next" -> <<"Next", <<"Not", simplify(ex[2])>>>>
      [] ex[1] = "Finally" -> <<"Globally", <<"Not", simplify(ex[2])>>>>
      [] ex[1] = "Globally" -> <<"Finally", <<"Not", simplify(ex[2])>>>>
      [] ex[1] = "Until" ->
            <<"Release", <<"Not", simplify(ex[2])>>, <<"Not", simplify(ex[3])>>>>
      [] ex[1] = "Release" ->
            <<"Until", <<"Not", simplify(ex[2])>>, <<"Not", simplify(ex[3])>>>>
      [] ex[1] = "WeakUntil" ->
            <<"Until", <<"Not", simplify(ex[3])>>,
                       <<"And", <<"Not", simplify(ex[2])>>,
                                <<"Not", simplify(ex[3])>>>>>>
      [] ex[1] = "StrongRelease" ->
            <<"Release", <<"Not", simplify(ex[3])>>,
                         <<"Or", <<"Not", simplify(ex[2])>>,
                                 <<"Not", simplify(ex[3])>>>>>>
      [] ex[1] = "Not" -> simplify(ex[2])

\* a rewrite of And that knows no constant and no contradiction
simplify_and_plain(lhs, rhs) == <<"And", simplify(lhs), simplify(rhs)>>

\* Expr::simplify, the expression is And(lhs, rhs); the arms are tried in
\* the order of the match
simplify_and(lhs, rhs) ==
    IF lhs[1] = "Next" /\ rhs[1] = "Next"
    THEN <<"Next", <<"And", simplify(lhs[2]), simplify(rhs[2])>>>>
    ELSE IF lhs[1] = "False" \/ rhs[1] = "False" THEN <<"False">>
    ELSE IF lhs[1] = "True" THEN simplify(rhs)
    ELSE IF rhs[1] = "True" THEN simplify(lhs)
    ELSE IF rhs[1] = "Not"
         THEN IF lhs = rhs[2] THEN <<"False">>
              ELSE <<"And", simplify(lhs), simplify(rhs)>>
    ELSE IF lhs[1] = "Not"
         THEN IF rhs = lhs[2] THEN <<"False">>
              ELSE <<"And", simplify(lhs), simplify(rhs)>>
    ELSE <<"And", simplify(lhs), simplify(rhs)>>

\* Expr::simplify, the expression is Or(lhs, rhs)
simplify_or(lhs, rhs) ==
    IF lhs[1] = "Next" /\ rhs[1] = "Next"
    THEN <<"Next", <<"Or", simplify(lhs[2]), simplify(rhs[2])>>>>
    ELSE IF lhs[1] = "True" \/ rhs[1] = "True" THEN <<"True">>
    ELSE IF lhs[1] = "False" THEN simplify(rhs)
    ELSE IF rhs[1] = "False" THEN simplify(lhs)
    ELSE <<"Or", simplify(lhs), simplify(rhs)>>

\* a rewrite that leaves Globally in place
simplify_derived_keep(e) ==
    CASE e[1] = "WeakUntil" ->
            <<"Release", simplify(e[3]), <<"Or", simplify(e[2]), simplify(e[3])>>>>
      [] e[1] = "Globally" -> <<"Globally", simplify(e[2])>>
      [] e[1] = "Finally" -> <<"Until", <<"True">>, simplify(e[2])>>
      [] e[1] = "StrongRelease" ->
            <<"Until", simplify(e[3]), <<"And", simplify(e[2]), simplify(e[3])>>>>

\* a rewrite of Globally that the duality law of Finally undoes
simplify_derived_back(e) ==
    CASE e[1] = "WeakUntil" ->
            <<"Release", simplify(e[3]), <<"Or", simplify(e[2]), simplify(e[3])>>>>
      [] e[1] = "Globally" -> <<"Not", <<"Finally", <<"Not", simplify(e[2])>>>>>>
      [] e[1] = "Finally" -> <<"Until", <<"True">>, simplify(e[2])>>
      [] e[1] = "StrongRelease" ->
            <<"Until", simplify(e[3]), <<"And", simplify(e[2]), simplify(e[3])>>>>

\* Expr::simplify, "the ones below have to be changed to allowed symbols"
simplify_derived(e) ==
    CASE e[1] = "WeakUntil" ->
            <<"Release", simplify(e[3]), <<"Or", simplify(e[2]), simplify(e[3])>>>>
      [] e[1] = "Globally" -> <<"Release", <<"False">>, simplify(e[2])>>
      [] e[1] = "Finally" -> <<"Until", <<"True">>, simplify(e[2])>>
      [] e[1] = "StrongRelease" ->
            <<"Until", simplify(e[3]), <<"And", simplify(e[2]), simplify(e[3])>>>>

\* Expr::simplify
simplify(e) ==
    CASE e[1] = "Not" -> simplify_not(e[2])
      [] e[1] \in {"True", "False", "Atomic"} -> e
      [] e[1] = "Next" -> <<"Next", simplify(e[2])>>
      [] e[1] = "And" -> simplify_and(e[2], e[3])
      [] e[1] = "Or" -> simplify_or(e[2], e[3])
      [] e[1] = "Until" -> <<"Until", simplify(e[2]), simplify(e[3])>>
      [] e[1] = "Release" -> <<"Release", simplify(e[2]), simplify(e[3])>>
      [] OTHER -> simplify_derived(e)

\* Expr::is_pnf
RECURSIVE is_pnf(_)
is_pnf(e) ==
    CASE e[1] = "Not" -> e[2][1] = "Atomic"
      [] e[1] \in {"True", "False", "Atomic"} -> TRUE
      [] e[1] = "Next" -> is_pnf(e[2])
      [] e[1] \in {"And", "Or", "Until", "Release"} -> is_pnf(e[2]) /\ is_pnf(e[3])
      [] OTHER -> FALSE

\* Expr::subformula
RECURSIVE subformula(_)
subformula(e) ==
    CASE e[1] \in {"False", "True", "Atomic"} -> {e}
      [] e[1] = "Not" -> subformula(e[2])
      [] e[1] \in {"Next", "Globally", "Finally"} -> {e} \cup subformula(e[2])
      [] OTHER -> {e} \cup subformula(e[2]) \cup subformula(e[3])

\* Expr::closure
closure(e) ==
    subformula(e) \cup
    {IF f[1] \in {"True", "False"} THEN f ELSE <<"Not", f>> : f \in subformula(e)}

\* satisfies
satisfies(set, expr) ==
    LET exists == expr \in set \/ negated(expr) \in set
        holds ==
            CASE expr[1] = "True" -> expr \in set
              [] expr[1] = "And" ->
                    \/ expr \in set /\ expr[2] \in set /\ expr[3] \in set
                    \/ expr \notin set /\ ~(expr[2] \in set /\ expr[3] \in set)
              [] expr[1] = "Or" ->
                    \/ expr \in set /\ (expr[2] \in set \/ expr[3] \in set)
                    \/ expr \notin set /\ expr[2] \notin set /\ expr[3] \notin set
              [] expr[1] = "Until" ->
                    /\ expr[3] \notin set \/ expr \in set
                    /\ ~(expr \in set /\ negated(expr[3]) \in set) \/ expr[2] \in set
              [] expr[1] = "Release" ->
                    /\ ~(expr[2] \in set /\ expr[3] \in set) \/ expr \in set
                    /\ ~(expr \in set /\ negated(expr[2]) \in set) \/ expr[3] \in set
              [] OTHER -> TRUE
    IN  IF expr[1] = "False" THEN expr \notin set ELSE exists /\ holds

\* a completion that adds the negation of every subformula
ElementaryCompleteAll(s, sub) ==
    s \cup {<<"Not", f>> : f \in {x \in sub : x[1] \notin {"False", "True"}}}

\* Formula::elementary, the map over the powerset: the negation of every
\* subformula that is not in s is added to s
ElementaryComplete(s, sub) ==
    s \cup {<<"Not", f>> : f \in {x \in sub : x[1] \notin {"False", "True"} /\ x \notin s}}

\* Formula::elementary (the sets it returns, their order in the Vec dropped)
elementary(e) ==
    LET sub == subformula(e)
    IN  {s \in {ElementaryComplete(t, sub) : t \in SUBSET sub} :
            \A x \in sub : satisfies(s, x)}

\* Expr::pnf, the test that ends the loop
pnf_break_first(new_root, root) == TRUE

pnf_break(new_root, root) == new_root = root

\* Formula::pnf: root_expr = self.simplify()
PnfCall ==
    /\ lpc = "idle" /\ Len(returned) < MaxCalls
    /\ root_expr' = simplify(IF returned = <<>> THEN formula
                             ELSE returned[Len(returned)])
    /\ lpc' = "loop"
    /\ UNCHANGED <<frontVars, parityVars, buchiVars, formula, returned, elem>>

\* Expr::pnf, an iteration of the loop that does not break
PnfLoop ==
    /\ lpc = "loop"
    /\ ~pnf_break(simplify(root_expr), root_expr)
    /\ root_expr' = simplify(root_expr)
    /\ UNCHANGED <<frontVars, parityVars, buchiVars, formula, lpc, returned, elem>>

\* Expr::pnf, the iteration that breaks, and the return
PnfReturn ==
    /\ lpc = "loop"
    /\ pnf_break(simplify(root_expr), root_expr)
    /\ returned' = Append(returned, root_expr)
    /\ lpc' = "idle"
    /\ UNCHANGED <<frontVars, parityVars, buchiVars, formula, root_expr, elem>>

\* Formula::elementary, called on the parsed formula or on a formula pnf
\* returned
Elementary ==
    /\ lpc = "idle" /\ elem = <<>>
    /\ \E e \in {formula} \cup Range(returned) : elem' = <<e, elementary(e)>>
    /\ UNCHANGED <<frontVars, parityVars, buchiVars, formula, lpc, root_expr, returned>>

\* ---- Formula::parse and Display for Expr
\* A &str is the sequence of its characters; the characters that are not
\* ASCII carry their Unicode names.
NotSign == "NOT SIGN"
LogicalAnd == "LOGICAL AND"
LogicalOr == "LOGICAL OR"

\* the name of an atom as characters; the atoms of the model have names of
\* one character
AtomChars(name) == <<name>>

RECURSIVE fmt_expr(_)

\* Expr::fmt_braces
fmt_braces(e) ==
    IF e[1] \in {"Atomic", "False", "True", "Not", "Next"} THEN fmt_expr(e)
    ELSE <<"(">> \o fmt_expr(e) \o <<")">>

\* the symbol Display for Expr puts between the operands of a binary case
InfixSymbol(case) ==
    CASE case = "And" -> LogicalAnd
      [] case = "Or" -> LogicalOr
      [] case = "Until" -> "U"
      [] case = "WeakUntil" -> "W"
      [] case = "Release" -> "R"
      [] case = "StrongRelease" -> "M"

\* the tag the parsers of the unary and binary cases begin with
PrefixTag(case) ==
    CASE case = "Not" -> <<"!">>
      [] case = "And" -> <<"&", " ">>
      [] case = "Or" -> <<"|", " ">>
      [] case = "Next" -> <<"X", " ">>
      [] case = "Finally" -> <<"F", " ">>
      [] case = "Globally" -> <<"G", " ">>
      [] case = "Until" -> <<"U", " ">>
      [] case = "WeakUntil" -> <<"W", " ">>
      [] case = "Release" -> <<"R", " ">>
      [] case = "StrongRelease" -> <<"M", " ">>

\* Display for Expr of transform.rs, a file the crate does not compile: the
\* prefix notation the parsers read
RECURSIVE fmt_expr_prefix(_)
fmt_expr_prefix(e) ==
    CASE e[1] = "Atomic" -> AtomChars(e[2])
      [] e[1] = "True" -> <<"t", "r", "u", "e">>
      [] e[1] = "False" -> <<"f", "a", "l", "s", "e">>
      [] e[1] \in UnaryCases -> PrefixTag(e[1]) \o fmt_expr_prefix(e[2])
      [] OTHER -> PrefixTag(e[1]) \o fmt_expr_prefix(e[2]) \o <<" ">>
                      \o fmt_expr_prefix(e[3])

\* Display for Expr (to_string)
fmt_expr(e) ==
    CASE e[1] = "Atomic" -> AtomChars(e[2])
      [] e[1] = "True" -> <<"t", "r", "u", "e">>
      [] e[1] = "False" -> <<"f", "a", "l", "s", "e">>
      [] e[1] = "Finally" -> <<"F", " ">> \o fmt_braces(e[2])
      [] e[1] = "Globally" -> <<"G", " ">> \o fmt_braces(e[2])
      [] e[1] = "Next" -> <<"X", " ">> \o fmt_braces(e[2])
      [] e[1] = "Not" -> <<NotSign>> \o fmt_braces(e[2])
      [] OTHER -> fmt_braces(e[2]) \o <<" ", InfixSymbol(e[1]), " ">>
                      \o fmt_braces(e[3])

\* an IResult: Ok((rest, value)), Err(Err::Error) or Err(Err::Incomplete)
Done(rest, value) == [kind |-> "Ok", rest |-> rest, value |-> value]
ParseError == [kind |-> "Error", rest |-> <<>>, value |-> <<>>]
Incomplete == [kind |-> "Incomplete", rest |-> <<>>, value |-> <<>>]

\* bytes::complete::tag
tag(t, i) ==
    IF Len(i) >= Len(t) /\ SubSeq(i, 1, Len(t)) = t
    THEN Done(SubSeq(i, Len(t) + 1, Len(i)), t)
    ELSE ParseError

\* character::streaming::char: at the end of the input more is asked for
char(c, i) ==
    IF i = <<>> THEN Incomplete
    ELSE IF i[1] = c THEN Done(Tail(i), c)
    ELSE ParseError

\* the ASCII letters of the model
Alphanumeric ==
    {"a", "b", "e", "f", "l", "r", "s", "t", "u", "F", "G", "M", "R", "U", "W", "X"}

\* the length of the longest prefix of i made of letters and digits
RECURSIVE AlphanumericRun(_)
AlphanumericRun(i) ==
    IF i # <<>> /\ i[1] \in Alphanumeric THEN 1 + AlphanumericRun(Tail(i)) ELSE 0

\* the String of a &str
RECURSIVE to_string(_)
to_string(i) == IF i = <<>> THEN "" ELSE i[1] \o to_string(Tail(i))

\* character::complete::alphanumeric1 mapped to Expr::Atomic
parse_identifier(i) ==
    IF AlphanumericRun(i) = 0 THEN ParseError
    ELSE Done(SubSeq(i, AlphanumericRun(i) + 1, Len(i)),
              <<"Atomic", to_string(SubSeq(i, 1, AlphanumericRun(i)))>>)

RECURSIVE parse_expr(_)

\* parse_false and parse_true
parse_constant(t, value, i) ==
    IF tag(t, i).kind = "Ok" THEN Done(tag(t, i).rest, value) ELSE tag(t, i)

\* preceded(tag(..), Expr::parse.map(..)): parse_not, parse_next,
\* parse_globally, parse_finally
parse_unary(case, i) ==
    IF tag(PrefixTag(case), i).kind # "Ok" THEN tag(PrefixTag(case), i)
    ELSE IF parse_expr(tag(PrefixTag(case), i).rest).kind # "Ok"
    THEN parse_expr(tag(PrefixTag(case), i).rest)
    ELSE Done(parse_expr(tag(PrefixTag(case), i).rest).rest,
              <<case, parse_expr(tag(PrefixTag(case), i).rest).value>>)

\* separated_pair(Expr::parse, char(' '), Expr::parse), after the first
\* operand was parsed with the result r1
parse_second(case, r1) ==
    IF char(" ", r1.rest).kind # "Ok" THEN char(" ", r1.rest)
    ELSE IF parse_expr(char(" ", r1.rest).rest).kind # "Ok"
    THEN parse_expr(char(" ", r1.rest).rest)
    ELSE Done(parse_expr(char(" ", r1.rest).rest).rest,
              <<case, r1.value, parse_expr(char(" ", r1.rest).rest).value>>)

\* preceded(tag(..), separated_pair(..).map(..)): parse_and, parse_or,
\* parse_until, parse_weak_until, parse_release, parse_strong_release
parse_binary(case, i) ==
    IF tag(PrefixTag(case), i).kind # "Ok" THEN tag(PrefixTag(case), i)
    ELSE IF parse_expr(tag(PrefixTag(case), i).rest).kind # "Ok"
    THEN parse_expr(tag(PrefixTag(case), i).rest)
    ELSE parse_second(case, parse_expr(tag(PrefixTag(case), i).rest))

\* the parsers of Expr::parse in the order alt tries them
Alternatives ==
    <<"False", "True", "Not", "And", "Or", "Next", "Finally", "Globally", "Until",
      "WeakUntil", "Release", "StrongRelease", "Atomic">>

\* one parser of the list
Alternative(case, i) ==
    CASE case = "False" -> parse_constant(<<"f", "a", "l", "s", "e">>, <<"False">>, i)
      [] case = "True" -> parse_constant(<<"t", "r", "u", "e">>, <<"True">>, i)
      [] case = "Atomic" -> parse_identifier(i)
      [] case \in UnaryCases -> parse_unary(case, i)
      [] OTHER -> parse_binary(case, i)

\* branch::alt: the first parser whose result is not Err::Error decides
RECURSIVE alt(_, _)
alt(k, i) ==
    IF k = Len(Alternatives) \/ Alternative(Alternatives[k], i).kind # "Error"
    THEN Alternative(Alternatives[k], i)
    ELSE alt(k + 1, i)

\* Expr::parse
parse_expr(i) == alt(1, i)

\* what Formula::parse returns: Ok(Formula) or one of the errors
parse(i) ==
    IF parse_expr(i).kind = "Incomplete" THEN [kind |-> "Incomplete", root_expr |-> <<>>]
    ELSE IF parse_expr(i).kind = "Error" THEN [kind |-> "Parsing", root_expr |-> <<>>]
    ELSE IF parse_expr(i).rest # <<>> THEN [kind |-> "Leftover", root_expr |-> <<>>]
    ELSE [kind |-> "Ok", root_expr |-> parse_expr(i).value]

\* Formula::parse on the last input
Parse ==
    /\ Len(parsed) < Len(input)
    /\ parsed' = Append(parsed, parse(input[Len(input)]))
    /\ UNCHANGED <<parityVars, buchiVars, ltlVars, input, gnba, attracted, net, petri_gnba>>

\* format!("{}", formula) of the formula parsed last, as the next input
Display ==
    /\ Len(parsed) = Len(input) /\ Len(input) \in 1..(MaxCalls - 1)
    /\ parsed[Len(parsed)].kind = "Ok"
    /\ input' = Append(input, fmt_expr(parsed[Len(parsed)].root_expr))
    /\ UNCHANGED <<parityVars, buchiVars, ltlVars, parsed, gnba, attracted, net, petri_gnba>>

\* ---- ltl_to_gnba
\* Expr::alphabet
RECURSIVE expr_alphabet(_)
expr_alphabet(e) ==
    CASE e[1] \in {"True", "False"} -> {}
      [] e[1] = "Atomic" -> {e}
      [] e[1] \in UnaryCases -> expr_alphabet(e[2])
      [] OTHER -> expr_alphabet(e[2]) \cup expr_alphabet(e[3])

\* Formula::alphabet
alphabet(e) ==
    expr_alphabet(e) \cup
    {<<"Not", x>> : x \in {y \in expr_alphabet(e) : y[1] \notin {"True", "False"}}}

\* the names of the atoms in the order of String::cmp
AtomsSorted == <<"a", "b">>

\* set.iter().sorted_by(Expr::cmp) for a set of atoms and negated atoms: by
\* the name of the atom, an atom before its negation
RECURSIVE sorted_by_cmp(_, _)
sorted_by_cmp(set, k) ==
    IF k > Len(AtomsSorted) THEN <<>>
    ELSE (IF <<"Atomic", AtomsSorted[k]>> \in set
          THEN <<to_string(fmt_expr(<<"Atomic", AtomsSorted[k]>>))>> ELSE <<>>)
         \o (IF <<"Not", <<"Atomic", AtomsSorted[k]>>>> \in set
             THEN <<to_string(fmt_expr(<<"Not", <<"Atomic", AtomsSorted[k]>>>>))>> ELSE <<>>)
         \o sorted_by_cmp(set, k + 1)

\* Expr::print_set, for a set of atoms and negated atoms
print_set(set) == "{" \o join(sorted_by_cmp(set, 1), ", ") \o "}"

\* filters that are implications from s to s_prime only
PotentialTargetsOneWay(s, expr, elementary_sets) ==
    {s_prime \in elementary_sets :
        /\ expr[1] = "Next" => (expr \in s => expr[2] \in s_prime)
        /\ expr[1] = "Until" =>
               (expr \in s => (expr[3] \in s \/ (expr[2] \in s /\ expr \in s_prime)))
        /\ expr[1] = "Release" =>
               (expr \in s => (\/ expr[2] \in s /\ expr[3] \in s
                               \/ expr[3] \in s /\ expr \in s_prime))}

\* the filters of `for expr in &closure`, also for the expressions that
\* push no set of targets: Next, Until and Release are bi-implications
\* between s and s_prime
PotentialTargets(s, expr, elementary_sets) ==
    CASE expr[1] = "Next" ->
            {s_prime \in elementary_sets :
                \/ expr \in s /\ expr[2] \in s_prime
                \/ expr \notin s /\ expr[2] \notin s_prime}
      [] expr[1] = "Until" ->
            IF expr \in s
            THEN {s_prime \in elementary_sets :
                     expr[3] \in s \/ (expr[2] \in s /\ expr \in s_prime)}
            ELSE {s_prime \in elementary_sets :
                     ~(expr[3] \in s \/ (expr[2] \in s /\ expr \in s_prime))}
      [] expr[1] = "Release" ->
            IF expr \in s
            THEN {s_prime \in elementary_sets :
                     \/ expr[2] \in s /\ expr[3] \in s
                     \/ expr[3] \in s /\ expr \in s_prime}
            ELSE {s_prime \in elementary_sets :
                     ~(\/ expr[2] \in s /\ expr[3] \in s
                       \/ expr[3] \in s /\ expr \in s_prime)}
      [] OTHER -> elementary_sets

\* all_states after the intersections with the target_sets
Targets(s, cl, elementary_sets) ==
    {t \in elementary_sets : \A expr \in cl : t \in PotentialTargets(s, expr, elementary_sets)}

\* the automaton ltl_to_gnba builds from the formula in positive normal
\* form, its closure, its elementary sets and its alphabet. A state is
\* named by the elementary set it was created for, the key under which
\* `states` holds it; its id, the position of the set in the Vec, and its
\* label are left out.
Gnba(f, cl, elementary_sets, al) ==
    [states |-> elementary_sets,
     initial_states |-> {b_set \in elementary_sets : f \in b_set},
     accepting_sets |->
        {{b_set \in elementary_sets : until \notin b_set \/ until[3] \in b_set} :
            until \in {expr \in cl : expr[1] = "Until"}},
     transitions |->
        UNION {{<<s, print_set(s \cap al), t>> : t \in Targets(s, cl, elementary_sets)} :
                  s \in elementary_sets}]

\* ltl_to_gnba, after formula.pnf() returned
LtlToGnba ==
    /\ lpc = "idle" /\ Len(returned) = 1 /\ gnba = <<>>
    /\ gnba' = <<Gnba(returned[1], closure(returned[1]), elementary(returned[1]),
                      alphabet(returned[1]))>>
    /\ UNCHANGED <<parityVars, buchiVars, ltlVars, input, parsed, attracted, net, petri_gnba>>

\* ------------------------------------------------------------ petri nets
\* PetriNet::new
PetriNetNew == [places |-> <<>>, transitions |-> <<>>]

\* the labels of the transitions, in the order of str
TransitionLabels == <<"t0", "t1">>

\* a Marking is the set of the places whose bit is set; the places are
\* numbered from 1 here and from 0 in the code
initial_marking(n) == {i \in DOMAIN n.places : n.places[i] > 0}

\* the filter of Marking::next and of active_transitions: every input place
\* is marked
ActiveTransitions(n, marking) ==
    SelectSeq(n.transitions, LAMBDA t : t.inputs \subseteq marking)

\* Marking::next: the inputs are cleared, then the outputs are set
next(n, marking) ==
    [i \in DOMAIN ActiveTransitions(n, marking) |->
        <<ActiveTransitions(n, marking)[i].label,
          (marking \ ActiveTransitions(n, marking)[i].inputs)
              \cup ActiveTransitions(n, marking)[i].outputs>>]

active_transitions(n, marking) ==
    [i \in DOMAIN ActiveTransitions(n, marking) |-> ActiveTransitions(n, marking)[i].label]

\* petri_state_to_string: the labels sorted, joined and put in braces
petri_state_to_string(active) ==
    "{" \o join(SelectSeq(TransitionLabels, LAMBDA l : \E i \in DOMAIN active : active[i] = l),
                ", ") \o "}"

\* states.entry(label).or_insert_with(|| gnba.new_labeled_state(label))
StateEntry(r, label) ==
    IF label \in DOMAIN r.states THEN r
    ELSE [gnba |-> new_labeled_state(r.gnba, label),
          states |-> Insert(r.states, label, r.gnba.size)]

\* the body of `for (label, m) in next_markings`, up to add_transition
PetriTransition(r, source_label, target_label, label) ==
    [gnba |-> add_transition(r.gnba, r.states[source_label], r.states[target_label], label),
     states |-> r.states]

\* the loop `for (label, m) in next_markings` of petri_to_gnba
RECURSIVE PetriEdges(_, _, _, _, _, _)
PetriEdges(n, nexts, marking, r, vis, que) ==
    IF nexts = <<>>
    THEN [gnba |-> r.gnba, states |-> r.states, visited |-> vis, queue |-> que]
    ELSE PetriEdges(n, Tail(nexts), marking,
             PetriTransition(
                 StateEntry(StateEntry(r, petri_state_to_string(active_transitions(n, marking))),
                            petri_state_to_string(active_transitions(n, Head(nexts)[2]))),
                 petri_state_to_string(active_transitions(n, marking)),
                 petri_state_to_string(active_transitions(n, Head(nexts)[2])),
                 Head(nexts)[1]),
             vis \cup {Head(nexts)[2]},
             IF Head(nexts)[2] \in vis THEN que ELSE Append(que, Head(nexts)[2]))

\* the loop `while let Some(marking) = queue.pop_front()` of petri_to_gnba
RECURSIVE PetriLoop(_, _, _, _)
PetriNext(n, e) == PetriLoop(n, e, e.visited, e.queue)
PetriLoop(n, r, vis, que) ==
    IF que = <<>> THEN [gnba |-> r.gnba, states |-> r.states, visited |-> vis]
    ELSE PetriNext(n, PetriEdges(n, next(n, Head(que)), Head(que), r, vis,
                                 Tail(que)))

\* petri_to_gnba, with the locals states and visited next to the automaton
petri_to_gnba(n) ==
    PetriLoop(n,
        [gnba |-> set_initial_state(
                      new_labeled_state(new,
                          petri_state_to_string(active_transitions(n, initial_marking(n)))),
                      0),
         states |-> Insert(EmptyMap,
                           petri_state_to_string(active_transitions(n, initial_marking(n))),
                           0)],
        {initial_marking(n)}, <<initial_marking(n)>>)

PetriToGnba ==
    /\ petri_gnba = <<>>
    /\ petri_gnba' = <<petri_to_gnba(net)>>
    /\ UNCHANGED <<parityVars, buchiVars, ltlVars, input, parsed, gnba, attracted, net>>

\* ------------------------------------------------ claims: parity solvers
Returned == {s \in Solvers : sol[s].status = "ok"}
Region(s, player) ==
    IF player = "Even" THEN sol[s].even_region ELSE sol[s].odd_region
Total == \A v \in Vertices : \E w \in Vertices : <<v, w>> \in edges

\* vertices reachable from S along E
RECURSIVE Reach(_, _)
Reach(E, S) ==
    LET T == S \cup {e[2] : e \in {x \in E : x[1] \in S}}
    IN IF T = S THEN S ELSE Reach(E, T)

\* the edges of the game in which the vertices of the player keep only the
\* move of the strategy of solver s
StrategyEdges(s, player) ==
    {e \in edges : owner[e[1]] = player =>
                       sol[s].strategy[e[1]].next_node_id = e[2]}

\* v lies on a cycle of E on which no priority is above its own
OnCycleBelow(E, v) ==
    LET low == {e \in E : priority[e[1]] <= priority[v] /\ priority[e[2]] <= priority[v]}
    IN v \in Reach(low, {e[2] : e \in {x \in low : x[1] = v}})

WinsEveryPlay(s, player) ==
    LET E == StrategyEdges(s, player)
    IN \A v \in Reach(E, Region(s, player)) :
           from_usize(priority[v]) # player => ~OnCycleBelow(E, v)

\* C1: the four solvers return the same winning regions: any two solvers
\* that returned a Solution have the same even_region and the same odd_region.
SolversAgree ==
    pc = "done" =>
        \A s \in Returned, t \in Returned :
            /\ sol[s].even_region = sol[t].even_region
            /\ sol[s].odd_region = sol[t].odd_region

\* C2: in a game where every vertex has a successor, for every solver and
\* each player, every cycle reachable from the region of the player, when the
\* player follows the returned strategy, has a highest priority of the
\* parity of the player.
StrategiesWin ==
    pc = "done" /\ Total =>
        \A s \in Returned, player \in {"Even", "Odd"} : WinsEveryPlay(s, player)

\* a game without dead ends that all four solvers solved, where Even wins a
\* vertex of its own from which a move into the region of Odd exists
StrategiesWinWitness ==
    /\ pc = "done" /\ Total /\ Returned = Solvers
    /\ \E e \in edges :
        /\ owner[e[1]] = "Even"
        /\ e[1] \in sol["zielonka"].even_region
        /\ e[2] \in sol["zielonka"].odd_region

\* C3: for every returned Solution, every vertex of a region that is owned
\* by the winner of the region and has an outgoing edge has a next_node_id,
\* and it names a vertex of the same region.
StrategyStaysInRegion ==
    \A s \in Returned, player \in {"Even", "Odd"} :
        \A v \in Region(s, player) :
            owner[v] = player /\ (\E w \in Vertices : <<v, w>> \in edges) =>
                /\ sol[s].strategy[v].next_node_id # None
                /\ sol[s].strategy[v].next_node_id \in Region(s, player)

\* every solver returned and Odd wins a vertex of its own that has one edge
\* into its region and one edge out of it
StrategyStaysInRegionWitness ==
    /\ Returned = Solvers
    /\ \E v \in sol["spm"].odd_region :
        /\ owner[v] = "Odd"
        /\ \E w \in sol["spm"].odd_region : <<v, w>> \in edges
        /\ \E w \in sol["spm"].even_region : <<v, w>> \in edges

\* C4: for every returned Solution, even_region and odd_region are disjoint
\* and their union is the vertex set of the game.
RegionsPartition ==
    \A s \in Returned :
        /\ sol[s].even_region \cap sol[s].odd_region = {}
        /\ sol[s].even_region \cup sol[s].odd_region = Vertices

\* tangle returned after a first iteration in which search found a dominion
\* of Even and a dominion of Odd, so both attractors left the same graph
RegionsPartitionWitness ==
    /\ sol["tangle"].status = "ok"
    /\ sol["tangle"].even_region # {} /\ sol["tangle"].odd_region # {}
    /\ \E y \in search(Vertices, {}) :
        /\ \E t \in y : t.winner = "Even" /\ escapes(t, Vertices) = {}
        /\ \E t \in y : t.winner = "Odd" /\ escapes(t, Vertices) = {}

\* C11: every solver returns a Solution for every game and never aborts,
\* the game with no vertices and games with a dead-end vertex included.
SolversNeverAbort == \A s \in Solvers : sol[s].status # "abort"

\* C17 as stated: fpi terminates because the measure (|Z|, p) progresses on
\* every iteration of the loop, in the lexicographic order.
FpiMeasureProgresses ==
    [][FpiLoop =>
          \/ Cardinality(z) < Cardinality(z')
          \/ Cardinality(z) = Cardinality(z') /\ p < p']_vars

\* C17: fpi terminates on every non-empty game: an iteration of the loop
\* never begins with values (Z, frozen, p) with which an earlier iteration
\* began, and the game has finitely many such values; when the loop has
\* ended fpi returns a Solution.
FpiTerminates ==
    /\ pc = "fpi" => <<z, frozen, p>> \notin seen
    /\ pc = "fpi" => p <= highest_priority(Vertices) + 1
    /\ (Vertices # {} /\ pc \notin {"start", "fpi"}) => sol["fpi"].status = "ok"

\* fpi returned after an iteration that added a vertex to Z, removed
\* another one and went back to p = 0
FpiTerminatesWitness ==
    /\ sol["fpi"].status = "ok"
    /\ \E a, b \in seen :
        /\ a[3] > 0 /\ b[3] = 0
        /\ Cardinality(b[1]) <= Cardinality(a[1])
        /\ b[1] \ a[1] # {} /\ a[1] \ b[1] # {}
        /\ Cardinality(seen) >= 8

\* what an iteration of the loop of tangle can find: a dominion, or a
\* tangle that is not in T yet
TangleFindsNew ==
    \A y \in search(g, tangles) :
        \/ \E t \in y : escapes(t, g) = {}
        \/ \E t \in y : escapes(t, g) # {} /\ t \notin tangles

\* C18: tangle terminates: every iteration of the main loop finds a
\* dominion or a tangle that is not in T yet; an iteration takes vertices
\* out of G, or leaves G as it is and adds tangles to T; and when G is empty
\* tangle returns a Solution.
TangleTerminates ==
    /\ [](pc = "tangle_loop" /\ g # {} => TangleFindsNew)
    /\ [][TangleLoop =>
            \/ g' \subseteq g /\ g' # g
            \/ g' = g /\ tangles \subseteq tangles' /\ tangles' # tangles]_vars
    /\ [](pc = "done" => sol["tangle"].status = "ok")

\* two iterations found no dominion and each added a tangle to T
TangleTerminatesWitness ==
    /\ pc = "tangle_loop"
    /\ g = Vertices
    /\ Cardinality(tangles) >= 2
    /\ TangleFindsNew

\* the least set that contains Z and every vertex with an edge into it
\* that the player owns or all of whose successors are in it
RECURSIVE Attractor(_, _)
Attractor(Z, player) ==
    LET T == Z \cup {v \in Vertices :
                        /\ \E w \in Z : <<v, w>> \in edges
                        /\ \/ owner[v] = player
                           \/ \A w \in Vertices : <<v, w>> \in edges => w \in Z}
    IN  IF T = Z THEN Z ELSE Attractor(T, player)

\* C29: attract(U, alpha, sigma) returns the alpha-attractor of U, the least
\* set Z that contains U and every vertex with an edge into Z that alpha
\* owns or all of whose successors are in Z; and every vertex of Z that
\* alpha owns, that has a successor in Z and no entry in sigma, is mapped by
\* the returned strategy to one of its successors in Z.
AttractIsAttractor ==
    attracted # <<>> =>
        /\ attracted[1].result.z = Attractor(attracted[1].z, attracted[1].player)
        /\ \A v \in attracted[1].result.z :
               (/\ owner[v] = attracted[1].player
                /\ v \notin DOMAIN attracted[1].strategy
                /\ \E w \in attracted[1].result.z : <<v, w>> \in edges)
               => /\ v \in DOMAIN attracted[1].result.strategy
                  /\ <<v, attracted[1].result.strategy[v]>> \in edges
                  /\ attracted[1].result.strategy[v] \in attracted[1].result.z

\* attract returned a set with a vertex of the other player that it
\* added, and a strategy with a move that it added next to the given one
AttractIsAttractorWitness ==
    /\ attracted # <<>>
    /\ \E v \in attracted[1].result.z \ attracted[1].z : owner[v] # attracted[1].player
    /\ attracted[1].strategy # EmptyMap
    /\ DOMAIN attracted[1].result.strategy # DOMAIN attracted[1].strategy

\* ------------------------------------------------- claims: petri nets
\* the markings reachable from the markings S by firing transitions
RECURSIVE ReachableMarkings(_)
ReachableMarkings(S) ==
    LET T == S \cup {x[2] : x \in UNION {Range(next(net, m)) : m \in S}}
    IN  IF T = S THEN S ELSE ReachableMarkings(T)

\* the state petri_to_gnba has for a marking: the entry of its label
MarkingState(m) ==
    petri_gnba[1].states[petri_state_to_string(active_transitions(net, m))]

\* C30: petri_to_gnba enumerates the markings reachable from the initial
\* marking and the automaton has exactly one state per reachable marking:
\* two distinct reachable markings never have the same state, also when
\* they enable the same transitions.
OneStatePerMarking ==
    petri_gnba # <<>> =>
        /\ petri_gnba[1].visited = ReachableMarkings({initial_marking(net)})
        /\ \A m1, m2 \in petri_gnba[1].visited :
               m1 # m2 => MarkingState(m1) # MarkingState(m2)
        /\ Cardinality(states(petri_gnba[1].gnba)) = Cardinality(petri_gnba[1].visited)

\* ------------------------------------------------ claims: Buchi automata
\* the edges of an automaton, words forgotten
BuchiEdges(b) ==
    {e \in states(b) \X states(b) : e[2] \in get_successors(b, e[1])}

\* q lies on a cycle of E
OnCycle(E, q) == q \in Reach(E, {e[2] : e \in {x \in E : x[1] = q}})

\* the strongly connected component of q
SccOf(E, q) == {t \in Reach(E, {q}) : q \in Reach(E, {t})}

\* q lies on a cycle that visits a state of every accepting set
OnAcceptingCycle(b, q) ==
    /\ OnCycle(BuchiEdges(b), q)
    /\ \A set \in b.accepting_sets : set \cap SccOf(BuchiEdges(b), q) # {}

\* some state reachable from an initial state lies on such a cycle
LanguageNonEmpty(b) ==
    \E q \in Reach(BuchiEdges(b), b.initial_states) : OnAcceptingCycle(b, q)

\* the states in which a run over the words u that starts in S and stays in
\* C can end
RECURSIVE RunEnds(_, _, _, _)
RunEnds(b, S, u, C) ==
    IF u = <<>> THEN S
    ELSE RunEnds(b,
                 C \cap UNION {IF Head(u) \in DOMAIN transitions(b, s)
                               THEN b.states[s][Head(u)] ELSE {} : s \in S},
                 Tail(u), C)

\* (u, v) is a lasso: u leads from an initial state to a state q, v leads
\* from q back to q inside the component of q, and the component meets
\* every accepting set
IsLasso(b, u, v) ==
    /\ v # <<>>
    /\ \E q \in RunEnds(b, b.initial_states, u, states(b)) :
        /\ q \in RunEnds(b, {q}, v, SccOf(BuchiEdges(b), q))
        /\ \A set \in b.accepting_sets : set \cap SccOf(BuchiEdges(b), q) # {}

VerifyReturned == called = "verify" /\ vpc = "returned"

\* C5: verify is an emptiness check: it returns success exactly when no
\* state reachable from an initial state lies on a cycle that visits a state
\* of every accepting set, and a trace in every other case.
VerifyDecidesEmptiness ==
    VerifyReturned =>
        /\ result.kind = "ok" <=> ~LanguageNonEmpty(buchi)
        /\ result.kind = "err" <=> LanguageNonEmpty(buchi)

\* C6: verify returns success iff no non-trivial strongly connected
\* component meets every accepting set; an accepting set with one state in
\* such a component and one state outside all of them does not give success.
SuccessIffNoAcceptingScc ==
    VerifyReturned =>
        (result.kind = "ok" <=> ~\E q \in states(buchi) : OnAcceptingCycle(buchi, q))

\* C7: every trace (u, v) verify returns is a lasso of the automaton: v is
\* not empty, u leads from an initial state to a state q, v leads from q
\* back to q inside one non-trivial component, and the component meets every
\* accepting set.
TraceIsLasso ==
    VerifyReturned /\ result.kind = "err" =>
        IsLasso(buchi, result.words, result.omega_words)

\* C8: gnba_to_nba preserves emptiness: the automaton it returns has a
\* reachable cycle through its accepting set iff the automaton it was called
\* on has a reachable cycle through all of its accepting sets, and verify on
\* the returned automaton returns a trace exactly in that case.
DegeneralizationPreservesEmptiness ==
    origin # <<>> /\ ~(called = "gnba_to_nba" /\ vpc = "returned") =>
        /\ LanguageNonEmpty(buchi) <=> LanguageNonEmpty(origin[1])
        /\ VerifyReturned => (result.kind = "err" <=> LanguageNonEmpty(origin[1]))

\* C9: the automaton gnba_to_nba returns for an automaton with accepting
\* family F has |states| * max(|F|, 1) states and at most one accepting set.
DegeneralizedSize ==
    origin # <<>> /\ ~(called = "gnba_to_nba" /\ vpc = "returned") =>
        /\ Cardinality(states(buchi)) =
               Cardinality(states(origin[1])) *
                   Max({Cardinality(origin[1].accepting_sets), 1})
        /\ Cardinality(buchi.accepting_sets) <= 1

\* gnba_to_nba returned for an automaton with two states, both with
\* transitions, and two accepting sets
DegeneralizedSizeWitness ==
    /\ origin # <<>> /\ vpc = "degeneralized"
    /\ Cardinality(origin[1].accepting_sets) = 2
    /\ Cardinality(states(origin[1])) = 2
    /\ \A s \in states(origin[1]) : get_successors(origin[1], s) # {}

\* C10: verify is total: on every automaton built with the operations it
\* returns success or a trace, it never aborts.
VerifyIsTotal == called = "verify" => result.kind # "abort"

\* C19: on an automaton with an empty accepting family every infinite run
\* is accepting: verify returns a trace iff a state on a cycle (a non-trivial
\* strongly connected component) is reachable from an initial state, and
\* success otherwise.
VerifyEmptyFamily ==
    (VerifyReturned /\ buchi.accepting_sets = {}) =>
        /\ result.kind \in {"ok", "err"}
        /\ result.kind = "err" <=>
               \E q \in Reach(BuchiEdges(buchi), buchi.initial_states) :
                   OnCycle(BuchiEdges(buchi), q)

SimpleCounterTrace ==
    /\ (VerifyReturned /\ buchi = VerifySimpleCounterTest) =>
           /\ result = Err(<<"a">>, <<"b", "a">>)
           /\ fmt(result) = "(a)(b,a)" \o OmegaMark
    /\ (VerifyReturned /\ result.kind = "err") =>
           /\ cstate \in accepting
           /\ cstate \in RunEnds(nba, nba.initial_states, result.words, states(nba))
           /\ cstate \in RunEnds(nba, {cstate}, result.omega_words, states(nba))

\* C24: verify is deterministic: for a fixed automaton the result, success
\* or the exact prefix and cycle of the trace, is the same on every run.
VerifyDeterministic ==
    (VerifyReturned /\ previous # <<>>) => result = previous[1]

\* the states a run over k words that starts in S and stays in C can end in
RECURSIVE StepsWithin(_, _, _, _)
StepsWithin(b, S, C, k) ==
    IF k = 0 THEN S
    ELSE StepsWithin(b, C \cap UNION {get_successors(b, s) : s \in S}, C, k - 1)

\* C26: the cycle of a trace verify returns is a shortest one: no cycle
\* from the accepting state where the search stopped back to that state
\* through states of its component has fewer words.
CycleIsShortest ==
    (VerifyReturned /\ result.kind = "err") =>
        \A k \in 1..(Len(result.omega_words) - 1) :
            cstate \notin StepsWithin(nba, {cstate}, cscc, k)

\* C25: scc_is_trivial calls a component trivial iff it has exactly one
\* member and that member has no transition to itself on any word; a single
\* state with a self-loop on a word that also leads to other states is not
\* trivial.
SccIsTrivialIffNoSelfLoop ==
    called = "verify" =>
        \A q \in states(buchi) :
            scc_is_trivial(buchi, SccOf(BuchiEdges(buchi), q)) <=>
                /\ SccOf(BuchiEdges(buchi), q) = {q}
                /\ q \notin get_successors(buchi, q)

\* ---------------------------------------------------- claims: tarjans_scc
\* C16: tarjans_scc returns a partition of the states into strongly
\* connected components: the components are non-empty and pairwise
\* disjoint, their union is the set of states, and two states are in the
\* same component iff each is reachable from the other; on the graph of
\* the test `tarjan` there are exactly 3 components, none of them trivial.
TarjanPartition ==
    called = "tarjans_scc" =>
        /\ \A i \in 1..Len(found_sccs) : found_sccs[i] # {}
        /\ \A i, j \in 1..Len(found_sccs) :
               i # j => found_sccs[i] \cap found_sccs[j] = {}
        /\ UNION Range(found_sccs) = states(buchi)
        /\ \A s, t \in states(buchi) :
               (\E i \in 1..Len(found_sccs) : {s, t} \subseteq found_sccs[i])
                   <=> t \in SccOf(BuchiEdges(buchi), s)
        /\ buchi = TarjanTest =>
               /\ Len(found_sccs) = 3
               /\ \A i \in 1..3 : ~scc_is_trivial(buchi, found_sccs[i])

\* tarjans_scc returned on the graph of the test
TarjanPartitionWitness ==
    /\ called = "tarjans_scc" /\ buchi = TarjanTest
    /\ Range(found_sccs) = {{0, 1, 2}, {3, 4, 7}, {5, 6}}

\* -------------------------------------------------- claims: ltl formulas
\* every node of an expression, the expression itself included
RECURSIVE Nodes(_)
Nodes(e) ==
    CASE e[1] \in {"True", "False", "Atomic"} -> {e}
      [] e[1] \in UnaryCases -> {e} \cup Nodes(e[2])
      [] OTHER -> {e} \cup Nodes(e[2]) \cup Nodes(e[3])

PositiveNormalForm(e) ==
    \A n \in Nodes(e) :
        /\ n[1] \notin {"Globally", "Finally", "WeakUntil", "StrongRelease"}
        /\ n[1] = "Not" => n[2][1] = "Atomic"

\* C12: every formula pnf returns is in positive normal form: it has no
\* Globally, Finally, WeakUntil or StrongRelease node and no Not node whose
\* child is not an atom (and is_pnf says so).
PnfIsPositiveNormalForm ==
    \A i \in 1..Len(returned) :
        PositiveNormalForm(returned[i]) /\ is_pnf(returned[i])

\* pnf returned for a negated WeakUntil over a derived operator
PnfIsPositiveNormalFormWitness ==
    /\ returned # <<>>
    /\ formula[1] = "Not" /\ formula[2][1] = "WeakUntil"
    /\ formula[2][2][1] \in {"Globally", "Finally"}

\* C13: pnf is idempotent: pnf called on a formula pnf returned returns
\* that formula.
PnfIdempotent == Len(returned) = 2 => returned[2] = returned[1]

\* the second call returned, and the first call took more than one pass
PnfIdempotentWitness ==
    /\ Len(returned) = 2
    /\ returned[1] \notin {formula, simplify(formula)}

\* C14: pnf terminates: once the loop of pnf is entered, repeating simplify
\* reaches a formula that simplify leaves unchanged, and pnf returns.
PnfTerminates == (lpc = "loop") ~> (lpc = "idle" /\ returned # <<>>)

\* pnf returned after at least three passes that changed the formula
PnfTerminatesWitness ==
    /\ lpc = "idle" /\ Len(returned) = 1
    /\ returned[1] \notin {formula, simplify(formula), simplify(simplify(formula))}
    /\ simplify(returned[1]) = returned[1]

\* the cases of the test simple_pnf, as (input, expected); A and B are the
\* atoms a and b
PnfCases ==
    LET A == <<"Atomic", "a">>
        B == <<"Atomic", "b">>
        T == <<"True">>
        F == <<"False">>
        N(e) == <<"Not", e>>
    IN  {<<N(<<"And", A, B>>), <<"Or", N(A), N(B)>>>>,
         <<N(<<"Or", A, B>>), <<"And", N(A), N(B)>>>>,
         <<<<"And", T, A>>, A>>,
         <<<<"And", F, A>>, F>>,
         <<<<"Finally", A>>, <<"Until", T, A>>>>,
         <<<<"Globally", A>>, <<"Release", F, A>>>>,
         <<<<"WeakUntil", A, B>>, <<"Release", B, <<"Or", A, B>>>>>>,
         <<<<"StrongRelease", A, B>>, <<"Until", B, <<"And", A, B>>>>>>,
         <<N(N(A)), A>>,
         <<N(<<"Next", A>>), <<"Next", N(A)>>>>,
         <<N(<<"Finally", A>>), <<"Release", F, N(A)>>>>,
         <<N(<<"Globally", A>>), <<"Until", T, N(A)>>>>,
         <<N(<<"Until", A, B>>), <<"Release", N(A), N(B)>>>>,
         <<N(<<"Release", A, B>>), <<"Until", N(A), N(B)>>>>}

\* C22: for the atoms a and b pnf applies the listed rewrites exactly:
\* not (a and b) becomes (not a) or (not b), not (a or b) becomes (not a)
\* and (not b), true and a becomes a, false and a becomes false, F a becomes
\* true U a, G a becomes false R a, a W b becomes b R (a or b), a M b becomes
\* b U (a and b), not not a becomes a, not X a becomes X not a, not F a
\* becomes false R not a, not G a becomes true U not a, not (a U b) becomes
\* (not a) R (not b), not (a R b) becomes (not a) U (not b).
PnfRewrites ==
    \A c \in PnfCases : (formula = c[1] /\ returned # <<>>) => returned[1] = c[2]

\* pnf returned on not (a U b) and on true and a
PnfRewritesWitness ==
    /\ returned # <<>>
    /\ \/ /\ formula = <<"Not", <<"Until", <<"Atomic", "a">>, <<"Atomic", "b">>>>>>
          /\ returned[1] = <<"Release", <<"Not", <<"Atomic", "a">>>>,
                                        <<"Not", <<"Atomic", "b">>>>>>
       \/ /\ formula = <<"And", <<"True">>, <<"Atomic", "a">>>>
          /\ returned[1] = <<"Atomic", "a">>

\* C23: parse, print, parse is a round trip: for every well-formed formula
\* in prefix notation, Formula::parse of the printed form of the parsed
\* formula succeeds and returns a formula equal to the parsed one.
ParsePrintParse ==
    Len(parsed) = 2 => parsed[2] = parsed[1]

\* C28: every set B that elementary returns is locally consistent for every
\* Release psi1 R psi2 of the closure, also when psi1 is the constant false:
\* if psi1 and psi2 are in B then psi1 R psi2 is in B, and if psi1 R psi2 is
\* in B and psi1 is not in B then psi2 is in B.
ReleaseConsistent ==
    elem # <<>> =>
        \A B \in elem[2] : \A psi \in closure(elem[1]) :
            psi[1] = "Release" =>
                /\ (psi[2] \in B /\ psi[3] \in B) => psi \in B
                /\ (psi \in B /\ psi[2] \notin B) => psi[3] \in B

\* the three rules for a transition from B to B2, for one expression of the
\* closure
TransitionRule(psi, B, B2) ==
    /\ psi[1] = "Next" => (psi \in B <=> psi[2] \in B2)
    /\ psi[1] = "Until" =>
           (psi \in B <=> (psi[3] \in B \/ (psi[2] \in B /\ psi \in B2)))
    /\ psi[1] = "Release" =>
           (psi \in B <=> ((psi[2] \in B /\ psi[3] \in B) \/ (psi[3] \in B /\ psi \in B2)))

\* C27: in the automaton ltl_to_gnba builds, a transition from the state of
\* the elementary set B to the state of the elementary set B2 exists iff
\* for every expression of the closure the rules of Next, Until and Release
\* hold together, each as a bi-implication; every such transition carries
\* the word of the literals of B, so two states have the same word iff
\* they have the same literals.
GnbaTransitions ==
    gnba # <<>> =>
        /\ gnba[1].states = elementary(returned[1])
        /\ \A B \in gnba[1].states, B2 \in gnba[1].states :
               (\E x \in gnba[1].transitions : x[1] = B /\ x[3] = B2)
                   <=> \A psi \in closure(returned[1]) : TransitionRule(psi, B, B2)
        /\ \A x \in gnba[1].transitions, y \in gnba[1].transitions :
               /\ x[1] \in gnba[1].states /\ x[3] \in gnba[1].states
               /\ x[2] = y[2] <=>
                      x[1] \cap alphabet(returned[1]) = y[1] \cap alphabet(returned[1])

\* ltl_to_gnba returned for a formula whose positive normal form has an
\* Until, a Release or a Next, with at least two transitions that carry
\* different words and a pair of states without a transition
GnbaTransitionsWitness ==
    /\ gnba # <<>>
    /\ \E psi \in closure(returned[1]) : psi[1] \in {"Next", "Until", "Release"}
    /\ \E x \in gnba[1].transitions, y \in gnba[1].transitions : x[2] # y[2]
    /\ \E B \in gnba[1].states, B2 \in gnba[1].states :
           \A x \in gnba[1].transitions : ~(x[1] = B /\ x[3] = B2)

\* C15: for every set B elementary returns for a formula and every
\* expression psi of the closure of the formula other than true and false,
\* exactly one of psi and its negation is in B.
ElementaryExactlyOne ==
    elem # <<>> =>
        \A B \in elem[2] : \A psi \in closure(elem[1]) :
            psi[1] \notin {"True", "False"} =>
                (psi \in B) # (negated(psi) \in B)

\* elementary returned several sets for a formula with an Until under a Not
ElementaryExactlyOneWitness ==
    /\ elem # <<>>
    /\ Cardinality(elem[2]) >= 2
    /\ elem[1][1] = "Not" /\ elem[1][2][1] = "Until"
    /\ \E B \in elem[2] : elem[1][2] \in B
    /\ \E B \in elem[2] : <<"Not", elem[1][2]>> \in B

\* ------------------------------------------------------- specifications
\* the formula side while a game is solved or an automaton verified
FrontIdle ==
    /\ input = <<>> /\ parsed = <<>> /\ gnba = <<>> /\ attracted = <<>>
    /\ net = PetriNetNew /\ petri_gnba = <<>>

LtlIdle ==
    /\ formula = <<"True">>
    /\ lpc = "idle" /\ root_expr = <<>> /\ returned = <<>> /\ elem = <<>>

\* the automaton side while the solvers run: nothing built, nothing called
BuchiIdle ==
    /\ buchi = new /\ origin = <<>>
    /\ called = "none" /\ vpc = "build"
    /\ nba = new /\ sccs = {} /\ accepting = {}
    /\ visited = EmptyMap /\ queue = <<>> /\ inits = {} /\ trace = <<>>
    /\ cstate = None /\ cscc = {} /\ cvisited = EmptyMap /\ cqueue = <<>>
    /\ result = NoResult /\ found_sccs = <<>> /\ previous = <<>>

Pairs(n) == (0..(n - 1)) \X (0..(n - 1))

InitParity ==
    /\ \E n \in 0..MaxVertices :
        /\ owner \in [0..(n - 1) -> {"Even", "Odd"}]
        /\ priority \in [0..(n - 1) -> 0..MaxPriority]
        /\ edges \in {E \in SUBSET Pairs(n) : Cardinality(E) <= MaxEdges}
    /\ pc = "start"
    /\ z = {} /\ frozen = EmptyMap /\ strategy = EmptyMap /\ p = 0 /\ seen = {}
    /\ g = {} /\ w_even = {} /\ sigma_even = EmptyMap
    /\ w_odd = {} /\ sigma_odd = EmptyMap /\ tangles = {}
    /\ sol = [s \in Solvers |-> NoSolution]
    /\ BuchiIdle /\ LtlIdle /\ FrontIdle

NextParity ==
    \/ FpiStart
    \/ FpiEmpty
    \/ FpiLoop
    \/ FpiReturn
    \/ Zielonka
    \/ Spm
    \/ TangleStart
    \/ TangleLoop
    \/ TangleReturn

\* a game for attract: the priorities play no part in it
InitAttract ==
    /\ \E n \in 0..MaxVertices :
        /\ owner \in [0..(n - 1) -> {"Even", "Odd"}]
        /\ priority = [v \in 0..(n - 1) |-> 0]
        /\ edges \in {E \in SUBSET Pairs(n) : Cardinality(E) <= MaxEdges}
    /\ pc = "start"
    /\ z = {} /\ frozen = EmptyMap /\ strategy = EmptyMap /\ p = 0 /\ seen = {}
    /\ g = {} /\ w_even = {} /\ sigma_even = EmptyMap
    /\ w_odd = {} /\ sigma_odd = EmptyMap /\ tangles = {}
    /\ sol = [s \in Solvers |-> NoSolution]
    /\ BuchiIdle /\ LtlIdle /\ FrontIdle

NextAttract == Attract

SpecAttract == InitAttract /\ [][NextAttract]_vars

SpecParity == InitParity /\ [][NextParity]_vars

\* the solver side while an automaton is built and verified: no game
ParityIdle ==
    /\ owner = EmptyMap /\ priority = EmptyMap /\ edges = {}
    /\ pc = "start"
    /\ z = {} /\ frozen = EmptyMap /\ strategy = EmptyMap /\ p = 0 /\ seen = {}
    /\ g = {} /\ w_even = {} /\ sigma_even = EmptyMap
    /\ w_odd = {} /\ sigma_odd = EmptyMap /\ tangles = {}
    /\ sol = [s \in Solvers |-> NoSolution]

\* Buchi::new()
InitBuchi == ParityIdle /\ BuchiIdle /\ LtlIdle /\ FrontIdle

NextBuchi ==
    \/ NewState
    \/ NewLabeledState
    \/ SetInitialState
    \/ AddTransition
    \/ AddAcceptingSet
    \/ GnbaToNba
    \/ VerifyBegin
    \/ VerifyInitial
    \/ VerifyPop
    \/ VerifyReturn
    \/ CyclePop

SpecBuchi == InitBuchi /\ [][NextBuchi]_vars

\* the program is run on the automaton a second time
NextVerifyTwice ==
    \/ NextBuchi
    \/ VerifyAgain

SpecVerifyTwice == InitBuchi /\ [][NextVerifyTwice]_vars

\* the transitions the automata of CycleInputs are built from
CycleTransitions ==
    {<<0, "a", 1>>, <<1, "b", 0>>, <<0, "b", 2>>, <<2, "a", 3>>, <<3, "a", 0>>,
     <<3, "b", 3>>, <<2, "b", 0>>}

\* automata with MaxCycleStates states, the initial state 0 and one
\* accepting state, the first or the last, as new_state, add_transition,
\* set_initial_state and add_accepting_set build them
CycleInputs ==
    {add_accepting_set(set_initial_state(FromTransitions(MaxCycleStates, T), 0), {f}) :
        T \in SUBSET CycleTransitions, f \in {0, MaxCycleStates - 1}}

\* verify is called on an automaton in which the cycles through a state
\* have different lengths
InitCycle ==
    /\ ParityIdle /\ LtlIdle /\ FrontIdle
    /\ buchi \in CycleInputs /\ origin = <<>>
    /\ called = "none" /\ vpc = "build"
    /\ nba = new /\ sccs = {} /\ accepting = {}
    /\ visited = EmptyMap /\ queue = <<>> /\ inits = {} /\ trace = <<>>
    /\ cstate = None /\ cscc = {} /\ cvisited = EmptyMap /\ cqueue = <<>>
    /\ result = NoResult /\ found_sccs = <<>> /\ previous = <<>>

NextCycle ==
    \/ VerifyBegin
    \/ VerifyInitial
    \/ VerifyPop
    \/ VerifyReturn
    \/ CyclePop

SpecCycle == InitCycle /\ [][NextCycle]_vars

\* Formula::parse returned a formula
InitLtl ==
    /\ ParityIdle /\ BuchiIdle /\ FrontIdle
    /\ formula \in UNION {ExprsOfSize(n) : n \in 1..MaxSize}
    /\ lpc = "idle" /\ root_expr = <<>> /\ returned = <<>> /\ elem = <<>>

NextLtl ==
    \/ PnfCall
    \/ PnfLoop
    \/ PnfReturn
    \/ Elementary

SpecLtl == InitLtl /\ [][NextLtl]_vars

\* a well-formed formula in prefix notation is the input
InitParse ==
    /\ ParityIdle /\ BuchiIdle /\ LtlIdle
    /\ input \in {<<fmt_expr_prefix(e)>> : e \in UNION {ExprsOfSize(n) : n \in 1..MaxNodes}}
    /\ parsed = <<>> /\ gnba = <<>> /\ attracted = <<>>
    /\ net = PetriNetNew /\ petri_gnba = <<>>

NextParse ==
    \/ Parse
    \/ Display

SpecParse == InitParse /\ [][NextParse]_vars

\* a call that was entered runs on: the code is single-threaded and does
\* nothing else until the call returns
\* ltl_to_gnba is called on a formula of at most MaxNodes nodes
InitGnba ==
    /\ ParityIdle /\ BuchiIdle /\ FrontIdle
    /\ formula \in UNION {ExprsOfSize(n) : n \in 1..MaxNodes}
    /\ lpc = "idle" /\ root_expr = <<>> /\ returned = <<>> /\ elem = <<>>

NextGnba ==
    \/ PnfCall
    \/ PnfLoop
    \/ PnfReturn
    \/ LtlToGnba

SpecGnba == InitGnba /\ [][NextGnba]_vars

\* petri_to_gnba is called on a net of at most MaxPlaces places and
\* MaxNetTransitions transitions
InitPetri ==
    /\ ParityIdle /\ BuchiIdle /\ LtlIdle
    /\ input = <<>> /\ parsed = <<>> /\ gnba = <<>> /\ attracted = <<>>
    /\ petri_gnba = <<>>
    /\ \E np \in 0..MaxPlaces, k \in 0..MaxNetTransitions :
           \E pl \in [1..np -> 0..MaxTokens],
              ins \in [1..k -> SUBSET (1..np)], outs \in [1..k -> SUBSET (1..np)] :
               net = [places |-> pl,
                      transitions |-> [i \in 1..k |->
                          [label |-> TransitionLabels[i], inputs |-> ins[i],
                           outputs |-> outs[i]]]]

NextPetri == PetriToGnba

SpecPetri == InitPetri /\ [][NextPetri]_vars

SpecLtlLive == InitLtl /\ [][NextLtl]_vars /\ WF_vars(NextLtl)

\* the automata tarjans_scc is called on: every automaton with at most
\* MaxTarjanStates states and transitions over one word, and the graph of
\* the test
TarjanInputs ==
    {TarjanTest} \cup
    UNION {{FromTransitions(n, T) : T \in SUBSET ((0..(n - 1)) \X {"a"} \X (0..(n - 1)))}
           : n \in 0..MaxTarjanStates}

InitTarjan ==
    /\ ParityIdle /\ LtlIdle /\ FrontIdle
    /\ buchi \in TarjanInputs /\ origin = <<>>
    /\ called = "none" /\ vpc = "build"
    /\ nba = new /\ sccs = {} /\ accepting = {}
    /\ visited = EmptyMap /\ queue = <<>> /\ inits = {} /\ trace = <<>>
    /\ cstate = None /\ cscc = {} /\ cvisited = EmptyMap /\ cqueue = <<>>
    /\ result = NoResult /\ found_sccs = <<>> /\ previous = <<>>

NextTarjan == TarjansScc

SpecTarjan == InitTarjan /\ [][NextTarjan]_vars

=============================================================================
